---- MODULE Spec2Model ----
(***************************************************************************)
(* Model of the endpoint-monitoring agent (HTTPAnalyticsAgent, the file    *)
(* src/unnamed/part_000) and of the sliding-window detector `analyze`      *)
(* (src/server/routes.ts) of http-analytics-dashboard.                     *)
(*                                                                         *)
(* Execution model: one JavaScript event loop.  Every action below is one  *)
(* run-to-completion step: the code from one suspension point (timer       *)
(* callback entry, `await fetch`, `await anthropic.messages.create`) to    *)
(* the next.  A timer callback that is suspended at an await is a record   *)
(* in `procs`.                                                             *)
(*                                                                         *)
(* Abstractions, all of environment inputs:                                *)
(*  - Date.now() is the variable `now`; it only takes the instants a       *)
(*    specification lists (the boundaries of the 5-minute cooldown and of  *)
(*    the 60-second window).                                               *)
(*  - the elapsed time a probe measures (Date.now() - startTime) is an     *)
(*    input of ProbeReturn, drawn from a small set, not derived from `now`.*)
(*  - a probe result carries `seq`, the position of the result among the   *)
(*    results ever recorded for its URL (the identity of the object that   *)
(*    history.push stores); its wall-clock `timestamp` field, which only   *)
(*    generateReport reads, is not modelled.                               *)
(*  - a repeating timer may fire at any instant while it is live; the      *)
(*    configured interval is not modelled.                                 *)
(*  - `lastCall` holds the outcome of the last call of a public method     *)
(*    (whether it threw, and the value a read returned); `alive` is        *)
(*    whether the server process is still up.                              *)
(***************************************************************************)
EXTENDS Integers, Sequences, FiniteSets, TLC

(* ------------------------------------------------------------------ *)
(* Program constants                                                    *)
(* ------------------------------------------------------------------ *)
HISTORY_CAP == 100
RECENT_N == 10
COOLDOWN_MS == 300000
SLOW_MS == 5000
MAX_STATUSES == 3
WINDOW_MS == 60000
MIN_SAMPLES == 10

(* use-websocket.tsx *)
RECONNECT_MS == 5000
CLIENT_LOG_CAP == 100

(* ------------------------------------------------------------------ *)
(* Bounds of the model                                                  *)
(* ------------------------------------------------------------------ *)
MaxInFlight == 2
MaxTimers == 2
RingMaxChecks == 102
E2EMaxChecks == 12
LatMaxChecks == 10
LatMaxSwitches == 2
StatusMaxChecks == 5
CoolMaxChecks == 3
WinMaxSamples == 11
WinMaxSwitches == 2
AnyMaxSamples == 4
GenMaxChecks == 3
FailMaxChecks == 4
LifeMaxChecks == 2
ReadMaxChecks == 11
MultiMaxChecks == 4
InterMaxChecks == 2
StoreMaxLogs == 11
LiveMaxChecks == 3
ClientMaxSockets == 4
ClientMaxMessages == 103
ClientMaxToasts == 2
SpikeMaxSamples == 11
SpikeMaxSwitches == 2

Urls == {"a", "b"}

VARIABLES
  isRunning,            \* HTTPAnalyticsAgent.isRunning
  monitoringIntervals,  \* Map url -> timer handle (index into timers)
  timers,               \* every setInterval handle ever created: [url, live]
  endpointHistory,      \* Map url -> array of probe results
  insightCache,         \* Map url -> time of the last cooldown reset
  procs,                \* suspended timer callbacks (slots 1..MaxInFlight)
  insightLog,           \* "insight" events emitted, in order
  checkEvents,          \* number of "check-completed" events emitted per url
  now,                  \* Date.now()
  metricsWindow,        \* routes.ts metricsWindow
  lastSignal,           \* value returned by the last call of analyze
  storage,              \* storage.ts MemStorage and what it has sent out
  client,               \* use-websocket.tsx: the state of one useWebSocket hook
  errorEvents,          \* number of "error" events delivered per url
  alive,                \* the server process has not been terminated
  lastCall              \* outcome of the last call of a public method

agentVars == <<isRunning, monitoringIntervals, timers, endpointHistory,
               insightCache, procs, insightLog, checkEvents>>
windowVars == <<metricsWindow, lastSignal, storage, client>>
hostVars == <<errorEvents, alive, lastCall>>
vars == <<isRunning, monitoringIntervals, timers, endpointHistory,
          insightCache, procs, insightLog, checkEvents, now,
          metricsWindow, lastSignal, storage, client, errorEvents, alive, lastCall>>

(* ------------------------------------------------------------------ *)
(* Maps (JavaScript Map): partial functions                             *)
(* ------------------------------------------------------------------ *)
EmptyMap == [x \in {} |-> 0]

MapSet(m, k, v) == (k :> v) @@ m

MapHas(m, k) == k \in DOMAIN m

(* Map.delete(k) *)
MapDelete(m, k) == [x \in DOMAIN m \ {k} |-> m[x]]

(* this.endpointHistory.get(url) || [] *)
HistoryOf(u) == IF MapHas(endpointHistory, u) THEN endpointHistory[u] ELSE <<>>

(* ------------------------------------------------------------------ *)
(* Pure helpers of the agent                                            *)
(* ------------------------------------------------------------------ *)
RECURSIVE SumResponseTime(_)
SumResponseTime(s) ==
  IF s = <<>> THEN 0 ELSE Head(s).responseTime + SumResponseTime(Tail(s))

FailCount(s) == Cardinality({i \in 1..Len(s) : ~s[i].success})

StatusSet(s) == {s[i].status : i \in 1..Len(s)}

(* mutant: the first n records instead of the last n *)
LastN_head(h, n) == IF Len(h) <= n THEN h ELSE SubSeq(h, 1, n)

(* history.slice(-10) *)
LastN(h, n) == IF Len(h) <= n THEN h ELSE SubSeq(h, Len(h) - n + 1, Len(h))

(* mutant: 2xx and 3xx count as ok *)
ResponseOk_3xx(status) == status >= 200 /\ status <= 399

(* response.ok of fetch: status in 200..299 *)
ResponseOk(status) == status >= 200 /\ status <= 299

(* checkEndpoint: resp is [completed, status]; elapsed the measured time *)
CheckEndpoint(u, resp, elapsed, k) ==
  IF resp.completed
  THEN [url |-> u, status |-> resp.status, responseTime |-> elapsed,
        success |-> ResponseOk(resp.status), error |-> FALSE, seq |-> k]
  ELSE [url |-> u, status |-> 0, responseTime |-> elapsed,
        success |-> FALSE, error |-> TRUE, seq |-> k]

(* mutant: the newest entry is removed instead of the oldest (pop) *)
PushBounded_pop(h, r) ==
  LET h1 == Append(h, r)
  IN IF Len(h1) > HISTORY_CAP THEN SubSeq(h1, 1, Len(h1) - 1) ELSE h1

(* history.push(result); if (history.length > 100) history.shift() *)
PushBounded(h, r) ==
  LET h1 == Append(h, r)
  IN IF Len(h1) > HISTORY_CAP THEN Tail(h1) ELSE h1

(* mutant: errorRate >= 0.3 *)
ErrorRateHigh_ge(s) == 10 * FailCount(s) >= 3 * Len(s)

(* errorRate > 0.3, errorRate = failures / length.  For lengths 1..10 the  *)
(* double quotient equals the double 0.3 only for 3/10, so the comparison  *)
(* is the exact one.                                                       *)
ErrorRateHigh(s) == 10 * FailCount(s) > 3 * Len(s)

(* mutant: avgResponseTime >= 5000 *)
SlowResponse_ge(s) == SumResponseTime(s) >= SLOW_MS * Len(s)

(* avgResponseTime > 5000, avgResponseTime = sum / length *)
SlowResponse(s) == SumResponseTime(s) > SLOW_MS * Len(s)

(* mutant: statusCodes.length > 3, duplicates counted *)
UnstableStatus_dup(s) == Len(s) > MAX_STATUSES

(* uniqueStatuses.length > 3 *)
UnstableStatus(s) == Cardinality(StatusSet(s)) > MAX_STATUSES

RuleHolds(k, s) ==
  CASE k = 1 -> ErrorRateHigh(s)
    [] k = 2 -> SlowResponse(s)
    [] k = 3 -> UnstableStatus(s)

(* mutant: the three ifs chained with else: one rule per pass at most *)
NextRule_else(s, from) ==
  IF from = 1 /\ (\E k \in 1..3 : RuleHolds(k, s))
  THEN CHOOSE k \in 1..3 :
         RuleHolds(k, s) /\ \A j \in 1..(k - 1) : ~RuleHolds(j, s)
  ELSE 0

(* the first of the rules from, from+1, .., 3 whose `if` is taken; 0: none *)
NextRule(s, from) ==
  IF \E k \in from..3 : RuleHolds(k, s)
  THEN CHOOSE k \in from..3 :
         RuleHolds(k, s) /\ \A j \in from..(k - 1) : ~RuleHolds(j, s)
  ELSE 0

(* mutant: one cooldown for all targets *)
CooldownActive_any(u) ==
  \E v \in DOMAIN insightCache : now - insightCache[v] < COOLDOWN_MS

(* mutant: a cooldown of one minute *)
CooldownActive_minute(u) ==
  MapHas(insightCache, u) /\ now - insightCache[u] < 60 * 1000

(* mutant: <= in place of < *)
CooldownActive_le(u) ==
  MapHas(insightCache, u) /\ now - insightCache[u] <= COOLDOWN_MS

(* mutant: the comparison inverted *)
CooldownActive_gt(u) ==
  MapHas(insightCache, u) /\ now - insightCache[u] > COOLDOWN_MS

(* lastInsight && Date.now() - lastInsight.getTime() < 5 * 60 * 1000 *)
CooldownActive(u) ==
  MapHas(insightCache, u) /\ now - insightCache[u] < COOLDOWN_MS

(* generateInsight: the reply of the text-generation call.  "json": a JSON *)
(* object; "fenced": the same inside ```json fences, which the two replace *)
(* calls strip; "prose": text JSON.parse rejects; "apiError": the call     *)
(* rejects.                                                                *)
Replies == {"json", "fenced", "prose", "apiError"}

(* mutant: only a rejected call counts as a failure *)
ReplyParses_prose(reply) == reply # "apiError"

ReplyParses(reply) == reply \in {"json", "fenced"}

(* ------------------------------------------------------------------ *)
(* Sliding-window detector (routes.ts)                                  *)
(* ------------------------------------------------------------------ *)
(* A Metric is [statusCode, responseTime, timestamp]; responseTime is     *)
(* optional: NoLatency stands for `undefined`.                             *)
NoLatency == 0 - 1

(* what analyze returns: null, or a signal.  errorRate and the baseline    *)
(* mean are quotients and are kept as num / den.                           *)
NullSignal == [type |-> "null", value |-> 0, num |-> 0, den |-> 1]

(* no call of analyze has returned yet *)
NoCall == [type |-> "none", value |-> 0, num |-> 0, den |-> 1]

(* mutant: the cutoff test applied to the newest sample instead of the oldest *)
RECURSIVE PruneOld_back(_, _)
PruneOld_back(w, t) ==
  IF w # <<>> /\ w[Len(w)].timestamp < t - WINDOW_MS
  THEN PruneOld_back(SubSeq(w, 1, Len(w) - 1), t)
  ELSE w

(* pruneOld at time t: while the oldest entry is before the cutoff, shift *)
RECURSIVE PruneOld(_, _)
PruneOld(w, t) ==
  IF w # <<>> /\ w[1].timestamp < t - WINDOW_MS
  THEN PruneOld(Tail(w), t)
  ELSE w

ErrorCount(w) == Cardinality({j \in 1..Len(w) : w[j].statusCode >= 500})

(* .map(m => m.responseTime).filter(v => typeof v === "number") *)
ResponseTimes(w) ==
  SelectSeq([j \in 1..Len(w) |-> w[j].responseTime],
            LAMBDA v : v # NoLatency)

RECURSIVE SeqSum(_)
SeqSum(v) == IF v = <<>> THEN 0 ELSE Head(v) + SeqSum(Tail(v))

RECURSIVE SeqSumSq(_)
SeqSumSq(v) == IF v = <<>> THEN 0 ELSE Head(v) * Head(v) + SeqSumSq(Tail(v))

(* mean, std and `avg + 3 * deviation` are computed in doubles.  Where the *)
(* real value of mean + 3 * std equals the latency x, the rounding of the  *)
(* three decides the comparison.  For nine samples of 0 followed by x the  *)
(* double sum is below x for these x up to 130, e.g. for 7:                *)
(* 0.7 + 3 * 2.0999999999999996 = 6.999999999999999; for every other x up  *)
(* to 130 it is x itself, e.g. for 100: 10 + 3 * 30 = 100.                 *)
RoundedBelow ==
  {7, 14, 27, 28, 29, 49, 54, 56, 58, 59, 71, 73, 83, 98, 107, 108, 112,
   116, 118, 123}

(* metric.responseTime > avg + 3 * deviation, with avg = S/n and           *)
(* deviation = sqrt(n*Q - S*S)/n for S the sum and Q the sum of squares of *)
(* the n values: n*x - S > 3 * sqrt(n*Q - S*S).  Where the two sides       *)
(* differ, they differ by far more than the rounding error of the doubles  *)
(* (latencies are integers of a few digits); where they are equal, which   *)
(* among latencies drawn from {0, x} is nine 0 and one x, the doubles      *)
(* decide as RoundedBelow says.                                            *)
SpikeAbove(x, v) ==
  LET n == Len(v)
      d == n * x - SeqSum(v)
      r == 9 * (n * SeqSumSq(v) - SeqSum(v) * SeqSum(v))
  IN d > 0 /\ (d * d > r \/ (d * d = r /\ SeqSum(v) = x /\ x \in RoundedBelow))

(* mutant: the warm-up ends one sample early *)
WarmingUp_early(w) == Len(w) < MIN_SAMPLES - 1

(* metricsWindow.length < MIN_SAMPLES *)
WarmingUp(w) == Len(w) < MIN_SAMPLES

(* mutant: >= in place of > *)
WindowErrorRateHigh_ge(w) == 10 * ErrorCount(w) >= 3 * Len(w)

(* errorRate > 0.3, for errorRate = errors.length / metricsWindow.length:  *)
(* 10 * errors > 3 * length; the double quotient is the double 0.3         *)
(* exactly when the real one is 3/10.                                      *)
WindowErrorRateHigh(w) == 10 * ErrorCount(w) > 3 * Len(w)

(* the value analyze returns for `metric` once the window is w *)
SignalFor(metric, w) ==
  IF WarmingUp(w) THEN NullSignal
  ELSE IF WindowErrorRateHigh(w)
  THEN [type |-> "HIGH_ERROR_RATE", value |-> 0,
        num |-> ErrorCount(w), den |-> Len(w)]
  ELSE IF /\ Len(ResponseTimes(w)) >= MIN_SAMPLES
          /\ metric.responseTime # NoLatency
          /\ metric.responseTime # 0
          /\ SpikeAbove(metric.responseTime, ResponseTimes(w))
  THEN [type |-> "RESPONSE_TIME_SPIKE", value |-> metric.responseTime,
        num |-> SeqSum(ResponseTimes(w)), den |-> Len(ResponseTimes(w))]
  ELSE NullSignal

(* ------------------------------------------------------------------ *)
(* Suspended timer callbacks                                            *)
(* ------------------------------------------------------------------ *)
IdleProc ==
  [pc |-> "idle", timer |-> 0, url |-> "", sample |-> <<>>,
   throttled |-> FALSE, rule |-> 0, called |-> {}, emitted |-> {},
   reply |-> "none", thrown |-> FALSE]

FreeSlots == {i \in 1..MaxInFlight : procs[i].pc = "idle"}

FirstFree == CHOOSE i \in FreeSlots : \A j \in FreeSlots : i <= j

(* lastCall when no public method has been called.  `arg` and `value`   *)
(* are records whose fields depend on the method.                       *)
NoneCalled ==
  [op |-> "none", url |-> "", threw |-> FALSE, arg |-> [none |-> TRUE],
   value |-> [none |-> TRUE]]

Called(op, u, threw) ==
  [NoneCalled EXCEPT !.op = op, !.url = u, !.threw = threw]

(* ------------------------------------------------------------------ *)
(* Initial state: a constructed agent, an empty window                  *)
(* ------------------------------------------------------------------ *)
(* the hook before its first render: no socket, no timer, no log.          *)
(* `received` counts the "initial" and "update" messages handled,          *)
(* `lastType` is the kind of the last message handled.                     *)
NewClient ==
  [mounted |-> "no", sockets |-> <<>>, ws |-> 0, timeouts |-> <<>>,
   reconnectTimeout |-> 0, logs |-> <<>>, received |-> 0, toasts |-> 0,
   lastType |-> "none"]

(* new MemStorage(), before the sample logs are added: no log, the first   *)
(* id is 1, no onNewLog subscriber; nothing broadcast, nothing delivered   *)
EmptyStorage ==
  [httpLogs |-> EmptyMap, currentLogId |-> 1, onNewLog |-> FALSE,
   broadcasts |-> <<>>, updates |-> <<>>]

Init ==
  /\ isRunning = FALSE
  /\ monitoringIntervals = EmptyMap
  /\ timers = <<>>
  /\ endpointHistory = EmptyMap
  /\ insightCache = EmptyMap
  /\ procs = [i \in 1..MaxInFlight |-> IdleProc]
  /\ insightLog = <<>>
  /\ checkEvents = [u \in Urls |-> 0]
  /\ now = 0
  /\ metricsWindow = <<>>
  /\ lastSignal = NoCall
  /\ storage = EmptyStorage
  /\ client = NewClient
  /\ errorEvents = [u \in Urls |-> 0]
  /\ alive = TRUE
  /\ lastCall = NoneCalled

(* ------------------------------------------------------------------ *)
(* Agent operations                                                     *)
(* ------------------------------------------------------------------ *)

(* monitorEndpoint, applied to the registry and the timer table *)
RECURSIVE MonitorAll(_, _, _)
MonitorAll(cfgs, reg, tms) ==
  IF cfgs = <<>> THEN <<reg, tms>>
  ELSE LET tms1 == Append(tms, [url |-> Head(cfgs), live |-> TRUE])
       IN MonitorAll(Tail(cfgs), MapSet(reg, Head(cfgs), Len(tms1)), tms1)

(* startMonitoring(configs): configs is the sequence of the configs' urls *)
StartMonitoring(cfgs) ==
  /\ Len(timers) + Len(cfgs) <= MaxTimers
  /\ isRunning' = TRUE
  /\ LET r == MonitorAll(cfgs, monitoringIntervals, timers)
     IN /\ monitoringIntervals' = r[1]
        /\ timers' = r[2]
  /\ UNCHANGED <<endpointHistory, insightCache, procs, insightLog,
                 checkEvents, now, metricsWindow, lastSignal, storage, client, hostVars>>

(* the setInterval callback of timer t starts: `if (!this.isRunning)       *)
(* return;` else the probe is sent and the callback suspends at            *)
(* `await this.checkEndpoint(config.url)`                                  *)
TickFire(t) ==
  /\ t \in 1..Len(timers)
  /\ timers[t].live
  /\ IF ~isRunning
     THEN UNCHANGED procs
     ELSE /\ FreeSlots # {}
          /\ procs' = [procs EXCEPT ![FirstFree] =
                         [IdleProc EXCEPT !.pc = "probe", !.timer = t,
                                          !.url = timers[t].url]]
  /\ UNCHANGED <<isRunning, monitoringIntervals, timers, endpointHistory,
                 insightCache, insightLog, checkEvents, now,
                 metricsWindow, lastSignal, storage, client, hostVars>>

(* mutant: the evaluation is run on the history as it was before the push *)
ProbeReturn_before(i, resp, elapsed) ==
  /\ i \in 1..MaxInFlight
  /\ procs[i].pc = "probe"
  /\ LET u == procs[i].url
         h0 == HistoryOf(u)
         k0 == IF h0 = <<>> THEN 1 ELSE h0[Len(h0)].seq + 1
         result == CheckEndpoint(u, resp, elapsed, k0)
         history == PushBounded(h0, result)
         recentChecks == LastN(h0, RECENT_N)
         throttled == CooldownActive(u)
         k == IF throttled THEN 0 ELSE NextRule(recentChecks, 1)
     IN /\ endpointHistory' = MapSet(endpointHistory, u, history)
        /\ checkEvents' = [checkEvents EXCEPT ![u] = @ + 1]
        /\ insightCache' = IF k # 0 THEN MapSet(insightCache, u, now)
                           ELSE insightCache
        /\ procs' = [procs EXCEPT ![i] =
                       [@ EXCEPT !.pc = IF k = 0 THEN "done" ELSE "gen",
                                 !.sample = recentChecks,
                                 !.throttled = throttled,
                                 !.rule = k,
                                 !.called = IF k = 0 THEN {} ELSE {k}]]
  /\ UNCHANGED <<isRunning, monitoringIntervals, timers, insightLog, now,
                 metricsWindow, lastSignal, storage, client, hostVars>>

(* checkEndpoint returns; lines 58-68 and analyzeEndpointHealth up to its   *)
(* first await (or to its end)                                              *)
ProbeReturn(i, resp, elapsed) ==
  /\ i \in 1..MaxInFlight
  /\ procs[i].pc = "probe"
  /\ LET u == procs[i].url
         h0 == HistoryOf(u)
         k0 == IF h0 = <<>> THEN 1 ELSE h0[Len(h0)].seq + 1
         result == CheckEndpoint(u, resp, elapsed, k0)
         history == PushBounded(h0, result)
         recentChecks == LastN(history, RECENT_N)
         throttled == CooldownActive(u)
         k == IF throttled THEN 0 ELSE NextRule(recentChecks, 1)
     IN /\ endpointHistory' = MapSet(endpointHistory, u, history)
        /\ checkEvents' = [checkEvents EXCEPT ![u] = @ + 1]
        /\ insightCache' = IF k # 0 THEN MapSet(insightCache, u, now)
                           ELSE insightCache
        /\ procs' = [procs EXCEPT ![i] =
                       [@ EXCEPT !.pc = IF k = 0 THEN "done" ELSE "gen",
                                 !.sample = recentChecks,
                                 !.throttled = throttled,
                                 !.rule = k,
                                 !.called = IF k = 0 THEN {} ELSE {k}]]
  /\ UNCHANGED <<isRunning, monitoringIntervals, timers, insightLog, now,
                 metricsWindow, lastSignal, storage, client, hostVars>>

(* the events for which a listener is registered on the agent: index.ts   *)
(* 211-213 for every WebSocket client, scheduler.ts 87 and 99.  No         *)
(* listener is registered for "error".                                     *)
Subscribed == {"insight", "check-completed", "report-generated"}

(* checkEndpoint returns, the result is recorded, and a listener of        *)
(* "check-completed" throws out of emit (lines 58-66): control passes to   *)
(* the catch of lines 69-72 and analyzeEndpointHealth is not called.       *)
(* emit("error", ...) returns when an "error" listener is registered and   *)
(* throws when none is; the throw leaves the callback, whose promise       *)
(* rejects with no handler, which terminates the process (the default      *)
(* from Node 15 on) or only prints a warning (before, or with              *)
(* --unhandled-rejections=warn): `fatal`.                                  *)
ProbeReturnThrows(i, resp, elapsed, fatal) ==
  /\ i \in 1..MaxInFlight
  /\ procs[i].pc = "probe"
  /\ LET u == procs[i].url
         h0 == HistoryOf(u)
         k0 == IF h0 = <<>> THEN 1 ELSE h0[Len(h0)].seq + 1
         result == CheckEndpoint(u, resp, elapsed, k0)
         history == PushBounded(h0, result)
     IN /\ endpointHistory' = MapSet(endpointHistory, u, history)
        /\ checkEvents' = [checkEvents EXCEPT ![u] = @ + 1]
        /\ IF "error" \in Subscribed
           THEN /\ errorEvents' = [errorEvents EXCEPT ![u] = @ + 1]
                /\ alive' = alive
           ELSE /\ errorEvents' = errorEvents
                /\ alive' = ~fatal
        /\ procs' = [procs EXCEPT ![i] =
                       [@ EXCEPT !.pc = "done", !.thrown = TRUE]]
  /\ UNCHANGED <<isRunning, monitoringIntervals, timers, insightCache,
                 insightLog, now, metricsWindow, lastSignal, storage, client, lastCall>>

(* mutant: a generation that fails takes the cooldown timestamp back *)
GenReturn_rollback(i, reply) ==
  /\ i \in 1..MaxInFlight
  /\ procs[i].pc = "gen"
  /\ LET p == procs[i]
         ok == ReplyParses(reply)
         k == NextRule(p.sample, p.rule + 1)
     IN /\ insightLog' = IF ok
                         THEN Append(insightLog,
                                [url |-> p.url, timestamp |-> now,
                                 rule |-> p.rule])
                         ELSE insightLog
        /\ insightCache' = IF k # 0 THEN MapSet(insightCache, p.url, now)
                           ELSE IF ok THEN insightCache
                           ELSE MapDelete(insightCache, p.url)
        /\ procs' = [procs EXCEPT ![i] =
                       [@ EXCEPT !.pc = IF k = 0 THEN "done" ELSE "gen",
                                 !.rule = k,
                                 !.reply = reply,
                                 !.called = IF k = 0 THEN @ ELSE @ \cup {k},
                                 !.emitted = IF ok THEN @ \cup {p.rule}
                                             ELSE @]]
  /\ UNCHANGED <<isRunning, monitoringIntervals, timers, endpointHistory,
                 checkEvents, now, metricsWindow, lastSignal, storage, client, hostVars>>

(* the text-generation call of generateInsight settles; the rest of        *)
(* generateInsight, then analyzeEndpointHealth up to its next await         *)
GenReturn(i, reply) ==
  /\ i \in 1..MaxInFlight
  /\ procs[i].pc = "gen"
  /\ LET p == procs[i]
         ok == ReplyParses(reply)
         k == NextRule(p.sample, p.rule + 1)
     IN /\ insightLog' = IF ok
                         THEN Append(insightLog,
                                [url |-> p.url, timestamp |-> now,
                                 rule |-> p.rule])
                         ELSE insightLog
        /\ insightCache' = IF k # 0 THEN MapSet(insightCache, p.url, now)
                           ELSE insightCache
        /\ procs' = [procs EXCEPT ![i] =
                       [@ EXCEPT !.pc = IF k = 0 THEN "done" ELSE "gen",
                                 !.rule = k,
                                 !.reply = reply,
                                 !.called = IF k = 0 THEN @ ELSE @ \cup {k},
                                 !.emitted = IF ok THEN @ \cup {p.rule}
                                             ELSE @]]
  /\ UNCHANGED <<isRunning, monitoringIntervals, timers, endpointHistory,
                 checkEvents, now, metricsWindow, lastSignal, storage, client, hostVars>>

(* the callback's promise settles: nothing of the callback remains.  The   *)
(* pc "done" is the end of the run-to-completion step that reached it, so   *)
(* every next-state relation below takes Finish before anything else.      *)
Finish(i) ==
  /\ i \in 1..MaxInFlight
  /\ procs[i].pc = "done"
  /\ procs' = [procs EXCEPT ![i] = IdleProc]
  /\ UNCHANGED <<isRunning, monitoringIntervals, timers, endpointHistory,
                 insightCache, insightLog, checkEvents, now,
                 metricsWindow, lastSignal, storage, client, hostVars>>

NoneDone == \A i \in 1..MaxInFlight : procs[i].pc # "done"

(* analyze(metric): push, pruneOld, then the checks *)
Analyze(metric) ==
  LET w == PruneOld(Append(metricsWindow, metric), now)
  IN /\ metricsWindow' = w
     /\ lastSignal' = SignalFor(metric, w)
     /\ UNCHANGED <<agentVars, now, storage, client, hostVars>>

(* the wall clock moves to instant t *)
Advance(t) ==
  /\ t > now
  /\ now' = t
  /\ UNCHANGED <<agentVars, windowVars, hostVars>>

(* ------------------------------------------------------------------ *)
(* Storage                                                              *)
(* ------------------------------------------------------------------ *)
(* mutant: the status code is passed as the latency of the sample *)
SampleOf_status(c) == [statusCode |-> c, responseTime |-> c, timestamp |-> now]

(* the sample addHttpLog hands to analyze for a log of status c *)
SampleOf(c) == [statusCode |-> c, responseTime |-> 0, timestamp |-> now]

(* mutant: the subscriber is told only of the logs that raised no alert *)
AddHttpLog_else(c) ==
  LET id == storage.currentLogId
      httpLog == [id |-> id, statusCode |-> c, timestamp |-> now]
      w == PruneOld(Append(metricsWindow, SampleOf(c)), now)
      anomaly == SignalFor(SampleOf(c), w)
  IN /\ metricsWindow' = w
     /\ lastSignal' = anomaly
     /\ storage' =
          [storage EXCEPT
             !.currentLogId = id + 1,
             !.httpLogs = MapSet(@, id, httpLog),
             !.broadcasts =
               IF anomaly # NullSignal
               THEN Append(@, [event |-> "AI_ALERT", type |-> anomaly.type,
                               timestamp |-> now])
               ELSE @,
             !.updates = IF storage.onNewLog /\ anomaly = NullSignal
                         THEN Append(@, httpLog) ELSE @]
     /\ UNCHANGED <<agentVars, now, client, hostVars>>

(* addHttpLog(log) for log.statusCode = c: the whole method runs without   *)
(* an await; the timestamp of the log and Date.now() of pruneOld are the   *)
(* same instant                                                            *)
AddHttpLog(c) ==
  LET id == storage.currentLogId
      httpLog == [id |-> id, statusCode |-> c, timestamp |-> now]
      w == PruneOld(Append(metricsWindow, SampleOf(c)), now)
      anomaly == SignalFor(SampleOf(c), w)
  IN /\ metricsWindow' = w
     /\ lastSignal' = anomaly
     /\ storage' =
          [storage EXCEPT
             !.currentLogId = id + 1,
             !.httpLogs = MapSet(@, id, httpLog),
             !.broadcasts =
               IF anomaly # NullSignal
               THEN Append(@, [event |-> "AI_ALERT", type |-> anomaly.type,
                               timestamp |-> now])
               ELSE @,
             !.updates = IF storage.onNewLog
                         THEN Append(@, httpLog) ELSE @]
     /\ UNCHANGED <<agentVars, now, client, hostVars>>

(* registerRoutes assigns storage.onNewLog *)
SetOnNewLog ==
  /\ storage' = [storage EXCEPT !.onNewLog = TRUE]
  /\ UNCHANGED <<agentVars, now, metricsWindow, lastSignal, client, hostVars>>

(* ------------------------------------------------------------------ *)
(* Client hook useWebSocket (use-websocket.tsx)                         *)
(* ------------------------------------------------------------------ *)
(* client.sockets: the readyState of every WebSocket the hook created    *)
(* ("connecting", "open", "closing", "closed"); client.ws: wsRef.current *)
(* as an index into it, 0 for null.  client.timeouts: every setTimeout   *)
(* the hook made, [due, state] with state "pending", "fired" or          *)
(* "cleared"; client.reconnectTimeout: reconnectTimeoutRef.current as an *)
(* index into it, 0 for undefined.  client.logs: the `logs` state.       *)

(* connect(): nothing if wsRef.current is OPEN, else a new WebSocket *)
Connect(c) ==
  IF c.ws # 0 /\ c.sockets[c.ws] = "open"
  THEN c
  ELSE [c EXCEPT !.sockets = Append(@, "connecting"),
                 !.ws = Len(c.sockets) + 1]

(* [message.data, ...prev].slice(0, 100) *)
Prepend(log, prev) ==
  LET l == <<log>> \o prev
  IN IF Len(l) > CLIENT_LOG_CAP THEN SubSeq(l, 1, CLIENT_LOG_CAP) ELSE l

(* the effect runs on mount: connect() *)
Mount ==
  /\ client.mounted = "no"
  /\ client' = Connect([client EXCEPT !.mounted = "yes"])
  /\ UNCHANGED <<agentVars, now, metricsWindow, lastSignal, storage, hostVars>>

(* the connection of socket s is established; the hook sets no onopen *)
SocketOpens(s) ==
  /\ s \in 1..Len(client.sockets)
  /\ client.sockets[s] = "connecting"
  /\ client' = [client EXCEPT !.sockets[s] = "open"]
  /\ UNCHANGED <<agentVars, now, metricsWindow, lastSignal, storage, hostVars>>

(* the close event of socket s (the connection failed, the server closed *)
(* it, or a close() of the client completed): onclose, lines 43-45       *)
SocketCloses(s) ==
  /\ s \in 1..Len(client.sockets)
  /\ client.sockets[s] # "closed"
  /\ client' =
       [client EXCEPT
          !.sockets[s] = "closed",
          !.timeouts = Append(@, [due |-> now + RECONNECT_MS,
                                  state |-> "pending"]),
          !.reconnectTimeout = Len(client.timeouts) + 1]
  /\ UNCHANGED <<agentVars, now, metricsWindow, lastSignal, storage, hostVars>>

(* the timeout h comes due: connect() *)
TimeoutFires(h) ==
  /\ h \in 1..Len(client.timeouts)
  /\ client.timeouts[h].state = "pending"
  /\ now >= client.timeouts[h].due
  /\ client' = Connect([client EXCEPT !.timeouts[h].state = "fired"])
  /\ UNCHANGED <<agentVars, now, metricsWindow, lastSignal, storage, hostVars>>

(* the cleanup of the effect, lines 50-55: clearTimeout of the handle the *)
(* ref holds (timer ids are positive, so a stored handle is truthy), then *)
(* close() of the current socket, which starts the closing handshake; the *)
(* close event comes later                                                *)
Unmount ==
  /\ client.mounted = "yes"
  /\ LET h == client.reconnectTimeout
         w == client.ws
     IN client' =
          [client EXCEPT
             !.mounted = "done",
             !.timeouts = IF h # 0 /\ @[h].state = "pending"
                          THEN [@ EXCEPT ![h].state = "cleared"] ELSE @,
             !.sockets = IF w # 0 /\ @[w] \in {"connecting", "open"}
                         THEN [@ EXCEPT ![w] = "closing"] ELSE @]
  /\ UNCHANGED <<agentVars, now, metricsWindow, lastSignal, storage, hostVars>>

(* onmessage of socket s while the hook is mounted: a message of type     *)
(* "initial" whose data is the array `data`                               *)
RecvInitial(s, data) ==
  /\ client.mounted = "yes"
  /\ s \in 1..Len(client.sockets)
  /\ client.sockets[s] = "open"
  /\ client' = [client EXCEPT !.logs = data, !.received = @ + 1,
                         !.lastType = "initial"]
  /\ UNCHANGED <<agentVars, now, metricsWindow, lastSignal, storage, hostVars>>

(* onmessage: a message of type "update" whose data is `log` *)
RecvUpdate(s, log) ==
  /\ client.mounted = "yes"
  /\ s \in 1..Len(client.sockets)
  /\ client.sockets[s] = "open"
  /\ client' = [client EXCEPT !.logs = Prepend(log, @), !.received = @ + 1,
                         !.lastType = "update"]
  /\ UNCHANGED <<agentVars, now, metricsWindow, lastSignal, storage, hostVars>>

(* onmessage: a message with event "AI_ALERT": one toast *)
RecvAlert(s) ==
  /\ client.mounted = "yes"
  /\ s \in 1..Len(client.sockets)
  /\ client.sockets[s] = "open"
  /\ client' = [client EXCEPT !.toasts = @ + 1, !.lastType = "alert"]
  /\ UNCHANGED <<agentVars, now, metricsWindow, lastSignal, storage, hostVars>>

(* ------------------------------------------------------------------ *)
(* Public methods called by the routes                                  *)
(* ------------------------------------------------------------------ *)
(* mutant: the running test is left out *)
AddEndpoint_unguarded(u) ==
  /\ Len(timers) < MaxTimers
  /\ LET r == MonitorAll(<<u>>, monitoringIntervals, timers)
     IN /\ monitoringIntervals' = r[1]
        /\ timers' = r[2]
  /\ lastCall' = Called("addEndpoint", u, FALSE)
  /\ UNCHANGED <<isRunning, endpointHistory, insightCache, procs,
                 insightLog, checkEvents, now, metricsWindow, lastSignal, storage, client,
                 errorEvents, alive>>

(* addEndpoint(config) for config.url = u *)
AddEndpoint(u) ==
  IF ~isRunning
  THEN /\ lastCall' = Called("addEndpoint", u, TRUE)
       /\ UNCHANGED <<agentVars, now, windowVars, errorEvents, alive>>
  ELSE /\ Len(timers) < MaxTimers
       /\ LET r == MonitorAll(<<u>>, monitoringIntervals, timers)
          IN /\ monitoringIntervals' = r[1]
             /\ timers' = r[2]
       /\ lastCall' = Called("addEndpoint", u, FALSE)
       /\ UNCHANGED <<isRunning, endpointHistory, insightCache, procs,
                      insightLog, checkEvents, now, metricsWindow,
                      lastSignal, storage, client, errorEvents, alive>>

(* removeEndpoint(url): the registered handle is cleared and the entry   *)
(* deleted; nothing else is touched                                      *)
RemoveEndpoint(u) ==
  /\ IF MapHas(monitoringIntervals, u)
     THEN /\ timers' = [timers EXCEPT ![monitoringIntervals[u]].live = FALSE]
          /\ monitoringIntervals' = MapDelete(monitoringIntervals, u)
     ELSE UNCHANGED <<timers, monitoringIntervals>>
  /\ lastCall' = Called("removeEndpoint", u, FALSE)
  /\ UNCHANGED <<isRunning, endpointHistory, insightCache, procs,
                 insightLog, checkEvents, now, metricsWindow, lastSignal, storage, client,
                 errorEvents, alive>>

(* the handles the registry holds *)
Registered == {monitoringIntervals[u] : u \in DOMAIN monitoringIntervals}

(* mutant: the handles are cleared but the registry keeps its entries *)
StopMonitoring_keep ==
  /\ isRunning' = FALSE
  /\ timers' = [t \in 1..Len(timers) |->
                  IF t \in Registered
                  THEN [timers[t] EXCEPT !.live = FALSE]
                  ELSE timers[t]]
  /\ lastCall' = Called("stopMonitoring", "", FALSE)
  /\ UNCHANGED <<monitoringIntervals, endpointHistory, insightCache, procs,
                 insightLog, checkEvents, now, metricsWindow, lastSignal,
                 storage, client, errorEvents, alive>>

(* stopMonitoring(): every registered handle is cleared and the registry *)
(* emptied                                                               *)
StopMonitoring ==
  /\ isRunning' = FALSE
  /\ timers' = [t \in 1..Len(timers) |->
                  IF t \in Registered
                  THEN [timers[t] EXCEPT !.live = FALSE]
                  ELSE timers[t]]
  /\ monitoringIntervals' = EmptyMap
  /\ lastCall' = Called("stopMonitoring", "", FALSE)
  /\ UNCHANGED <<endpointHistory, insightCache, procs, insightLog,
                 checkEvents, now, metricsWindow, lastSignal, storage, client, errorEvents,
                 alive>>

(* POST /api/ai-agent/restart with body.endpoints = cfgs (the urls):      *)
(* stopMonitoring() and then startMonitoring(endpoints), whose awaits are *)
(* of promises that are already settled, so no timer callback runs in     *)
(* between                                                                *)
Restart(cfgs) ==
  /\ Len(timers) + Len(cfgs) <= MaxTimers
  /\ LET cleared == [t \in 1..Len(timers) |->
                       IF t \in Registered
                       THEN [timers[t] EXCEPT !.live = FALSE]
                       ELSE timers[t]]
         r == MonitorAll(cfgs, EmptyMap, cleared)
     IN /\ monitoringIntervals' = r[1]
        /\ timers' = r[2]
  /\ isRunning' = TRUE
  /\ lastCall' = [Called("restart", "", FALSE)
                    EXCEPT !.arg = [endpoints |-> cfgs]]
  /\ UNCHANGED <<endpointHistory, insightCache, procs, insightLog,
                 checkEvents, now, metricsWindow, lastSignal, storage, client,
                 errorEvents, alive>>

(* getEndpointStats returns null *)
NullStats ==
  [found |-> FALSE, totalChecks |-> 0, successes |-> 0,
   sumResponseTime |-> 0, statusCodes |-> {}, lastCheck |-> <<>>,
   recentChecks |-> <<>>]

(* the value of getEndpointStats(url).  successRate and avgResponseTime  *)
(* are the quotients successes / totalChecks and sumResponseTime /       *)
(* totalChecks, kept as their terms; lastCheck is a sequence of one      *)
(* result.                                                               *)
EndpointStats(u) ==
  LET history == HistoryOf(u)
  IN IF Len(history) = 0 THEN NullStats
     ELSE [found |-> TRUE,
           totalChecks |-> Len(history),
           successes |-> Len(history) - FailCount(history),
           sumResponseTime |-> SumResponseTime(history),
           statusCodes |-> StatusSet(history),
           lastCheck |-> <<history[Len(history)]>>,
           recentChecks |-> LastN(history, RECENT_N)]

RECURSIVE TotalChecks(_, _)
TotalChecks(m, S) ==
  IF S = {} THEN 0
  ELSE LET u == CHOOSE x \in S : TRUE
       IN Len(m[u]) + TotalChecks(m, S \ {u})

(* the value of getStatus(); `endpoints` is the set of the registry's    *)
(* keys, their order left out                                            *)
AgentStatus ==
  [isRunning |-> isRunning,
   endpointsMonitored |-> Cardinality(DOMAIN monitoringIntervals),
   totalChecks |-> TotalChecks(endpointHistory, DOMAIN endpointHistory),
   endpoints |-> DOMAIN monitoringIntervals,
   endpointHistory |-> endpointHistory]

(* mutant: the read consumes the oldest result of the history *)
GetEndpointStats_shift(u) ==
  /\ lastCall' = [Called("getEndpointStats", u, FALSE)
                    EXCEPT !.value = EndpointStats(u)]
  /\ endpointHistory' =
       IF HistoryOf(u) = <<>> THEN endpointHistory
       ELSE MapSet(endpointHistory, u, Tail(HistoryOf(u)))
  /\ UNCHANGED <<isRunning, monitoringIntervals, timers, insightCache,
                 procs, insightLog, checkEvents, now, windowVars,
                 errorEvents, alive>>

GetEndpointStats(u) ==
  /\ lastCall' = [Called("getEndpointStats", u, FALSE)
                    EXCEPT !.value = EndpointStats(u)]
  /\ UNCHANGED <<agentVars, now, windowVars, errorEvents, alive>>

GetStatus ==
  /\ lastCall' = [Called("getStatus", "", FALSE) EXCEPT !.value = AgentStatus]
  /\ UNCHANGED <<agentVars, now, windowVars, errorEvents, alive>>

(* ------------------------------------------------------------------ *)
(* Environment inputs                                                   *)
(* ------------------------------------------------------------------ *)
OkResp == [completed |-> TRUE, status |-> 200]

FailResp == [completed |-> FALSE, status |-> 0]

FastMs == 100

LastSeq(u) == IF HistoryOf(u) = <<>> THEN 0 ELSE HistoryOf(u)[Len(HistoryOf(u))].seq

Probing == {i \in 1..MaxInFlight : procs[i].pc = "probe"}

(* ------------------------------------------------------------------ *)
(* SpecRing: two targets probed in turn, every probe a fast 200, far    *)
(* past the capacity of the history                                     *)
(* ------------------------------------------------------------------ *)
RingStart == ~isRunning /\ StartMonitoring(<<"a", "b">>)

RingTick ==
  \E t \in 1..MaxTimers :
    /\ Probing = {}
    /\ t <= Len(timers)
    /\ LastSeq(timers[t].url) < RingMaxChecks
    /\ \A u \in Urls : LastSeq(timers[t].url) <= LastSeq(u)
    /\ TickFire(t)

RingProbe == \E i \in 1..MaxInFlight : ProbeReturn(i, OkResp, FastMs)

RingFinish == \E i \in 1..MaxInFlight : Finish(i)

RingNext ==
  \/ RingFinish
  \/ NoneDone /\ RingStart
  \/ NoneDone /\ RingTick
  \/ NoneDone /\ RingProbe

SpecRing == Init /\ [][RingNext]_vars

(* ------------------------------------------------------------------ *)
(* Evaluation specifications: one target "a", probed one probe at a     *)
(* time; what differs is what the target answers and when               *)
(* ------------------------------------------------------------------ *)
Outcome(resp, elapsed) == [resp |-> resp, elapsed |-> elapsed]

(* the number of places where the target changes its behaviour *)
Switches(h) ==
  Cardinality({j \in 1..(Len(h) - 1) :
                 \/ h[j].status # h[j + 1].status
                 \/ h[j].responseTime # h[j + 1].responseTime})

EvalStart == ~isRunning /\ StartMonitoring(<<"a">>)

Generating == {i \in 1..MaxInFlight : procs[i].pc = "gen"}

EvalTick(maxChecks, maxPending) ==
  \E t \in 1..MaxTimers :
    /\ Probing = {}
    /\ Cardinality(Generating) <= maxPending
    /\ t <= Len(timers)
    /\ LastSeq(timers[t].url) < maxChecks
    /\ TickFire(t)

EvalProbe(outs, maxSwitches) ==
  \E i \in 1..MaxInFlight : \E o \in outs :
    /\ procs[i].pc = "probe"
    /\ Switches(Append(HistoryOf(procs[i].url),
                       CheckEndpoint(procs[i].url, o.resp, o.elapsed, 0)))
         <= maxSwitches
    /\ ProbeReturn(i, o.resp, o.elapsed)

EvalGen(replies) ==
  \E i \in 1..MaxInFlight : \E reply \in replies : GenReturn(i, reply)

EvalFinish == \E i \in 1..MaxInFlight : Finish(i)

EvalAdvance(instants) == \E t \in instants : Advance(t)

EvalNext(outs, maxChecks, maxSwitches, maxPending, replies, instants) ==
  \/ EvalFinish
  \/ NoneDone /\ EvalStart
  \/ NoneDone /\ EvalTick(maxChecks, maxPending)
  \/ NoneDone /\ EvalProbe(outs, maxSwitches)
  \/ NoneDone /\ EvalGen(replies)
  \/ NoneDone /\ EvalAdvance(instants)

(* SpecE2E: every probe is a fast 200 or a transport failure, in any order *)
E2EOutcomes == {Outcome(OkResp, FastMs), Outcome(FailResp, FastMs)}

E2EInstants == {COOLDOWN_MS}

E2EReplies == {"json", "prose"}

E2ENext ==
  EvalNext(E2EOutcomes, E2EMaxChecks, E2EMaxChecks, 0, E2EReplies,
           E2EInstants)

SpecE2E == Init /\ [][E2ENext]_vars

(* SpecCool: few probes (fast 200, fast failure, failure at the 10 s      *)
(* timeout), the clock on both sides of the end of the cooldown; text      *)
(* generations may be pending while the next probes run                    *)
TimeoutMs == 10000

CoolOutcomes ==
  {Outcome(OkResp, FastMs), Outcome(FailResp, FastMs),
   Outcome(FailResp, TimeoutMs)}

CoolInstants == {1, COOLDOWN_MS - 1, COOLDOWN_MS, COOLDOWN_MS + 1}

CoolNext ==
  EvalNext(CoolOutcomes, CoolMaxChecks, CoolMaxChecks, MaxInFlight,
           E2EReplies, CoolInstants)

SpecCool == Init /\ [][CoolNext]_vars

(* SpecGen: few probes, every kind of reply of the text generation *)
GenNext ==
  EvalNext(CoolOutcomes, GenMaxChecks, GenMaxChecks, 0, Replies,
           E2EInstants)

SpecGen == Init /\ [][GenNext]_vars

(* SpecFail: as SpecE2E with few probes, and a "check-completed" listener *)
(* that may throw                                                          *)
FailProbe ==
  \E i \in 1..MaxInFlight : \E o \in E2EOutcomes : \E fatal \in BOOLEAN :
    ProbeReturnThrows(i, o.resp, o.elapsed, fatal)

FailNext ==
  \/ alive /\ EvalFinish
  \/ alive /\ NoneDone /\ EvalStart
  \/ alive /\ NoneDone /\ EvalTick(FailMaxChecks, 0)
  \/ alive /\ NoneDone /\ EvalProbe(E2EOutcomes, FailMaxChecks)
  \/ alive /\ NoneDone /\ FailProbe
  \/ alive /\ NoneDone /\ EvalGen(E2EReplies)
  \/ alive /\ NoneDone /\ EvalAdvance(E2EInstants)

SpecFail == Init /\ [][FailNext]_vars

(* SpecLife: targets are started, added, removed and stopped in any      *)
(* order, also while a probe or a text generation is under way            *)
LifeConfigs == {<<"a">>, <<"a", "b">>}

LifeStart == ~isRunning /\ \E cfgs \in LifeConfigs : StartMonitoring(cfgs)

LifeAdd == \E u \in Urls : AddEndpoint(u)

LifeRemove == \E u \in Urls : RemoveEndpoint(u)

(* one callback at a time: a tick starts when no probe and no text       *)
(* generation is under way                                               *)
LifeTick ==
  \E t \in 1..MaxTimers :
    /\ t <= Len(timers)
    /\ Probing = {}
    /\ Generating = {}
    /\ LastSeq(timers[t].url) < LifeMaxChecks
    /\ TickFire(t)

LifeProbe ==
  \E i \in 1..MaxInFlight : \E o \in E2EOutcomes :
    ProbeReturn(i, o.resp, o.elapsed)

LifeNext ==
  \/ EvalFinish
  \/ NoneDone /\ LifeStart
  \/ NoneDone /\ LifeAdd
  \/ NoneDone /\ LifeRemove
  \/ NoneDone /\ StopMonitoring
  \/ NoneDone /\ LifeTick
  \/ NoneDone /\ LifeProbe
  \/ NoneDone /\ EvalGen(E2EReplies)

SpecLife == Init /\ [][LifeNext]_vars

(* SpecStop: as SpecLife, every start being the restart route (which on  *)
(* a constructed agent does what startMonitoring does), with endpoint      *)
(* lists that may name a url twice, and with status queries                *)
StopConfigs == {<<"a">>, <<"b">>, <<"a", "b">>, <<"a", "a">>}

StopRestart == \E cfgs \in StopConfigs : Restart(cfgs)

StopNext ==
  \/ EvalFinish
  \/ NoneDone /\ StopRestart
  \/ NoneDone /\ LifeAdd
  \/ NoneDone /\ LifeRemove
  \/ NoneDone /\ StopMonitoring
  \/ NoneDone /\ LifeTick
  \/ NoneDone /\ LifeProbe
  \/ NoneDone /\ EvalGen(E2EReplies)
  \/ NoneDone /\ GetStatus

SpecStop == Init /\ [][StopNext]_vars

(* SpecLive: one target that fails on every probe (at once or at the     *)
(* timeout), a text generation that always answers with JSON (bare or      *)
(* fenced), the clock passing two cooldown lengths.  The timer keeps       *)
(* firing (setInterval), fetch settles by its 10 s timeout at the latest,  *)
(* the generation answers and every settled callback ends: these steps     *)
(* are taken whenever they stay possible.  The clock is not forced.        *)
LiveOutcomes == {Outcome(FailResp, FastMs), Outcome(FailResp, TimeoutMs)}

LiveReplies == {"json", "fenced"}

LiveInstants == {COOLDOWN_MS, 2 * COOLDOWN_MS}

LiveTick == NoneDone /\ EvalTick(LiveMaxChecks, MaxInFlight)

LiveProbe == NoneDone /\ EvalProbe(LiveOutcomes, LiveMaxChecks)

LiveGen == NoneDone /\ EvalGen(LiveReplies)

LiveStart == NoneDone /\ EvalStart

LiveNext ==
  \/ EvalFinish
  \/ LiveStart
  \/ LiveTick
  \/ LiveProbe
  \/ LiveGen
  \/ NoneDone /\ EvalAdvance(LiveInstants)

SpecLive ==
  /\ Init
  /\ [][LiveNext]_vars
  /\ WF_vars(EvalFinish)
  /\ WF_vars(LiveStart)
  /\ WF_vars(LiveTick)
  /\ WF_vars(LiveProbe)
  /\ WF_vars(LiveGen)

(* SpecCheck: checkEndpoint called on its own with every kind of answer:  *)
(* completed responses of the listed codes, and a transport failure        *)
(* (timeout, DNS, refused connection: fetch rejects), after each of the    *)
(* listed elapsed times                                                    *)
CheckStatuses ==
  {200, 201, 204, 299, 300, 301, 304, 400, 401, 403, 404, 429, 500, 502, 503}

CheckResponses ==
  {[completed |-> TRUE, status |-> c] : c \in CheckStatuses} \cup {FailResp}

CheckElapsed == {0, FastMs, SLOW_MS + 1, TimeoutMs}

CheckCall ==
  \E u \in Urls : \E resp \in CheckResponses : \E elapsed \in CheckElapsed :
    /\ lastCall' = [Called("checkEndpoint", u, FALSE) EXCEPT
                      !.arg = [resp |-> resp, elapsed |-> elapsed],
                      !.value = CheckEndpoint(u, resp, elapsed, 0)]
    /\ UNCHANGED <<agentVars, now, windowVars, errorEvents, alive>>

CheckNext == CheckCall

SpecCheck == Init /\ [][CheckNext]_vars

(* SpecRead: one target whose probes all fail, probed past the ten        *)
(* results a read returns; the two reads are called at any moment          *)
ReadProbe == \E i \in 1..MaxInFlight : ProbeReturn(i, FailResp, FastMs)

ReadStats == \E u \in Urls : GetEndpointStats(u)

ReadNext ==
  \/ EvalFinish
  \/ NoneDone /\ EvalStart
  \/ NoneDone /\ EvalTick(ReadMaxChecks, 0)
  \/ NoneDone /\ ReadProbe
  \/ NoneDone /\ EvalGen(E2EReplies)
  \/ NoneDone /\ ReadStats
  \/ NoneDone /\ GetStatus

SpecRead == Init /\ [][ReadNext]_vars

(* SpecMulti: four probes of one target, each a slow answer of one of     *)
(* three status codes, a slow transport failure or a fast 200, so that     *)
(* none, one, two or all three rules hold for a sample; the clock may      *)
(* pass the end of the cooldown                                            *)
MultiOutcomes ==
  {Outcome([completed |-> TRUE, status |-> c], SLOW_MS + 1) :
     c \in {200, 404, 500}}
    \cup {Outcome(FailResp, SLOW_MS + 1), Outcome(OkResp, FastMs)}

MultiNext ==
  EvalNext(MultiOutcomes, MultiMaxChecks, MultiMaxChecks, 0, E2EReplies,
           E2EInstants)

SpecMulti == Init /\ [][MultiNext]_vars

(* SpecInter: two targets whose ticks, probes and text generations        *)
(* interleave in any order, as many at a time as there are callback slots  *)
Pending(u) ==
  LastSeq(u) + Cardinality({i \in 1..MaxInFlight :
                              procs[i].pc = "probe" /\ procs[i].url = u})

InterTick ==
  \E t \in 1..MaxTimers :
    /\ t <= Len(timers)
    /\ Pending(timers[t].url) < InterMaxChecks
    /\ TickFire(t)

InterNext ==
  \/ EvalFinish
  \/ NoneDone /\ RingStart
  \/ NoneDone /\ InterTick
  \/ NoneDone /\ LifeProbe
  \/ NoneDone /\ EvalGen(E2EReplies)
  \/ NoneDone /\ EvalAdvance(E2EInstants)

SpecInter == Init /\ [][InterNext]_vars

(* SpecLat: latencies around the 5000 ms threshold, with and without       *)
(* failures; the target changes its behaviour at most LatMaxSwitches times *)
LatOutcomes ==
  {Outcome(OkResp, SLOW_MS - 1), Outcome(OkResp, SLOW_MS + 1),
   Outcome(FailResp, SLOW_MS), Outcome(FailResp, SLOW_MS + 1)}

LatNext ==
  EvalNext(LatOutcomes, LatMaxChecks, LatMaxSwitches, 0, E2EReplies,
           E2EInstants)

SpecLat == Init /\ [][LatNext]_vars

(* SpecStatus: completed responses with four different codes and           *)
(* transport failures, in any order                                        *)
StatusOutcomes ==
  {Outcome([completed |-> TRUE, status |-> c], FastMs) :
     c \in {200, 404, 500, 503}} \cup {Outcome(FailResp, FastMs)}

StatusNext ==
  EvalNext(StatusOutcomes, StatusMaxChecks, StatusMaxChecks, 0, E2EReplies,
           E2EInstants)

SpecStatus == Init /\ [][StatusNext]_vars

(* ------------------------------------------------------------------ *)
(* Window specifications: calls of analyze                              *)
(* ------------------------------------------------------------------ *)
WinInstants == {WINDOW_MS, WINDOW_MS + 1001}

WinStatuses == {200, 500}

WinLatencies == {0, 100}

(* the number of places where consecutive samples differ in kind *)
WinSwitches(w) ==
  Cardinality({j \in 1..(Len(w) - 1) :
                 \/ w[j].statusCode # w[j + 1].statusCode
                 \/ w[j].responseTime # w[j + 1].responseTime})

(* a call whose timestamp is not before that of the newest sample held *)
WinCall ==
  \E c \in WinStatuses : \E r \in WinLatencies :
    \E ts \in WinInstants \cup {0} :
      LET m == [statusCode |-> c, responseTime |-> r, timestamp |-> ts]
      IN /\ Len(metricsWindow) < WinMaxSamples
         /\ WinSwitches(Append(metricsWindow, m)) <= WinMaxSwitches
         /\ ts <= now
         /\ metricsWindow # <<>>
              => metricsWindow[Len(metricsWindow)].timestamp <= ts
         /\ Analyze(m)

WinAdvance == \E t \in WinInstants : Advance(t)

WinNext == WinCall \/ WinAdvance

SpecWindow == Init /\ [][WinNext]_vars

(* a call with any timestamp up to the current time *)
AnyCall ==
  \E c \in WinStatuses : \E ts \in WinInstants \cup {0} :
    /\ Len(metricsWindow) < AnyMaxSamples
    /\ ts <= now
    /\ Analyze([statusCode |-> c, responseTime |-> 0, timestamp |-> ts])

AnyNext == AnyCall \/ WinAdvance

SpecWindowAny == Init /\ [][AnyNext]_vars

(* calls that may omit the latency; the timestamp is the time of the call, *)
(* as in addHttpLog                                                        *)
SpikeStatuses == {200, 500}

SpikeLatencies == {NoLatency, 0, 7}

SpikeCall ==
  \E c \in SpikeStatuses : \E r \in SpikeLatencies :
    LET m == [statusCode |-> c, responseTime |-> r, timestamp |-> now]
    IN /\ Len(metricsWindow) < SpikeMaxSamples
       /\ WinSwitches(Append(metricsWindow, m)) <= SpikeMaxSwitches
       /\ Analyze(m)

SpikeInstants == {WINDOW_MS + 1001}

SpikeAdvance == \E t \in SpikeInstants : Advance(t)

SpikeNext == SpikeCall \/ SpikeAdvance

SpecSpike == Init /\ [][SpikeNext]_vars

(* SpecStore: logs of status 200 or 500 are added one by one, before and  *)
(* after the route registration sets the subscriber, with the clock        *)
(* allowed to pass the window length once                                  *)
StoreLog ==
  \E c \in SpikeStatuses :
    /\ storage.currentLogId <= StoreMaxLogs
    /\ AddHttpLog(c)

StoreSubscribe == ~storage.onNewLog /\ SetOnNewLog

StoreNext == StoreLog \/ StoreSubscribe \/ SpikeAdvance

SpecStore == Init /\ [][StoreNext]_vars

(* SpecReconnect: one hook is mounted and later unmounted; its sockets    *)
(* open and close in any order, the clock passes the reconnect delay      *)
ReconnectInstants == {RECONNECT_MS, 2 * RECONNECT_MS, 3 * RECONNECT_MS}

ReconnectOpen == \E s \in 1..ClientMaxSockets : SocketOpens(s)

ReconnectClose == \E s \in 1..ClientMaxSockets : SocketCloses(s)

ReconnectFire ==
  \E h \in 1..ClientMaxSockets :
    /\ Len(client.sockets) < ClientMaxSockets
    /\ TimeoutFires(h)

ReconnectNext ==
  \/ Mount
  \/ ReconnectOpen
  \/ ReconnectClose
  \/ ReconnectFire
  \/ Unmount
  \/ EvalAdvance(ReconnectInstants)

SpecReconnect == Init /\ [][ReconnectNext]_vars

(* SpecClientLogs: the mounted hook with its socket open receives         *)
(* snapshots, updates and alerts in any order.  A snapshot is what         *)
(* sendInitialData sends: the logs of the server's store, oldest first,    *)
(* here the logs of ids 1..n; an update carries the log that follows the   *)
(* newest one the hook holds.                                              *)
ClientSnapshots == {0, 1, CLIENT_LOG_CAP - 1, CLIENT_LOG_CAP, CLIENT_LOG_CAP + 1}

Snapshot(n) == [j \in 1..n |-> [id |-> j]]

(* the id of the newest log of the list l, 0 for the empty list *)
MaxId(l) ==
  IF l = <<>> THEN 0
  ELSE CHOOSE m \in {l[j].id : j \in 1..Len(l)} :
         \A j \in 1..Len(l) : l[j].id <= m

LogsOpen == \E s \in 1..ClientMaxSockets : SocketOpens(s)

LogsInitial ==
  \E s \in 1..ClientMaxSockets : \E n \in ClientSnapshots :
    /\ client.received < ClientMaxMessages
    /\ RecvInitial(s, Snapshot(n))

LogsUpdate ==
  \E s \in 1..ClientMaxSockets :
    /\ client.received < ClientMaxMessages
    /\ RecvUpdate(s, [id |-> MaxId(client.logs) + 1])

LogsAlert ==
  \E s \in 1..ClientMaxSockets :
    /\ client.toasts < ClientMaxToasts
    /\ RecvAlert(s)

ClientLogsNext == Mount \/ LogsOpen \/ LogsInitial \/ LogsUpdate \/ LogsAlert

SpecClientLogs == Init /\ [][ClientLogsNext]_vars

(* C1: every target's history holds at most 100 results, and it is the     *)
(* most recent min(100, n) of the n results recorded for the target, in    *)
(* append order (the entries removed are the oldest).                      *)
C1_HistoryRing ==
  \A u \in DOMAIN endpointHistory :
    LET h == endpointHistory[u]
        n == checkEvents[u]
    IN /\ Len(h) <= 100
       /\ Len(h) = (IF n < 100 THEN n ELSE 100)
       /\ \A i \in 1..Len(h) : h[i].seq = n - Len(h) + i /\ h[i].url = u

C1_Witness ==
  /\ checkEvents["a"] = 102
  /\ Len(HistoryOf("a")) = 100
  /\ HistoryOf("a")[1].seq = 3
  /\ HistoryOf("a")[100].seq = 102


(* ------------------------------------------------------------------ *)
(* Vocabulary of the claims                                             *)
(* ------------------------------------------------------------------ *)
(* slot i has evaluated a sample in the pass it is in *)
Evaluated(i) == procs[i].pc \in {"gen", "done"}

(* the step is the return of the probe of slot i *)
ProbeStep(i) == procs[i].pc = "probe" /\ procs'[i].pc # "probe"

(* the step is the return of a text generation of slot i *)
GenStep(i) == procs[i].pc = "gen" /\ procs'[i] # procs[i]

Failures(h, from, to) == Cardinality({j \in from..to : ~h[j].success})

SomeRuleHoldsFor(s) ==
  \/ 10 * FailCount(s) > 3 * Len(s)
  \/ SumResponseTime(s) > 5000 * Len(s)
  \/ Cardinality(StatusSet(s)) > 3

(* no prefix of h has more than 30% failures *)
QuietPrefixes(h) == \A n \in 1..Len(h) : 10 * Failures(h, 1, n) <= 3 * n

(* C2 (as claimed): any two Insight emissions for one target are at least  *)
(* 5 minutes apart.                                                        *)
C2_OneInsightPerCooldown ==
  \A j \in 1..Len(insightLog) : \A k \in (j + 1)..Len(insightLog) :
    insightLog[j].url = insightLog[k].url
      => insightLog[k].timestamp - insightLog[j].timestamp >= 300000

(* C3: with cooldown inactive, the high-error-rate rule fires exactly when *)
(* more than 30% of the sampled records failed; with 10 records, exactly   *)
(* when 4 or more failed.                                                  *)
C3_ErrorRateRule ==
  \A i \in 1..MaxInFlight :
    (Evaluated(i) /\ ~procs[i].throttled) =>
      LET smp == procs[i].sample
      IN /\ (1 \in procs[i].called) <=> (10 * FailCount(smp) > 3 * Len(smp))
         /\ Len(smp) = 10 => ((1 \in procs[i].called) <=> FailCount(smp) >= 4)

C3_Witness ==
  \E i \in 1..MaxInFlight :
    /\ Evaluated(i) /\ ~procs[i].throttled
    /\ Len(procs[i].sample) = 10
    /\ FailCount(procs[i].sample) = 4
    /\ 1 \in procs[i].called
    /\ checkEvents["a"] = 11
    /\ Failures(HistoryOf("a"), 1, 10) = 3
    /\ insightLog = <<>>

C5_UnstableRule ==
  \A i \in 1..MaxInFlight :
    (procs[i].pc = "done" /\ ~procs[i].throttled) =>
      LET smp == procs[i].sample
      IN (3 \in procs[i].called) <=> (Cardinality(StatusSet(smp)) >= 4)

C5_Witness ==
  \E i \in 1..MaxInFlight :
    /\ procs[i].pc = "done" /\ ~procs[i].throttled
    /\ [j \in 1..Len(procs[i].sample) |-> procs[i].sample[j].status]
         = <<200, 200, 404, 500, 503>>
    /\ 3 \in procs[i].called

(* C6: an evaluation less than 5 minutes after the target's cooldown       *)
(* timestamp calls no generation and changes nothing; an evaluation with   *)
(* no timestamp, or 5 minutes or more after it, in which a rule holds      *)
(* resets the timestamp and starts an emission.                            *)
C6_CooldownExpiry ==
  [][\A i \in 1..MaxInFlight :
       ProbeStep(i) =>
         LET u == procs[i].url
         IN IF u \in DOMAIN insightCache /\ now - insightCache[u] < 300000
            THEN /\ procs'[i].pc = "done"
                 /\ procs'[i].called = {}
                 /\ insightCache' = insightCache
                 /\ insightLog' = insightLog
            ELSE SomeRuleHoldsFor(procs'[i].sample) =>
                   /\ procs'[i].pc = "gen"
                   /\ procs'[i].called # {}
                   /\ insightCache'[u] = now]_vars

C6_Witness ==
  /\ now = 300000
  /\ "a" \in DOMAIN insightCache
  /\ insightCache["a"] = 300000
  /\ Len(insightLog) >= 1
  /\ insightLog[1].timestamp = 0

(* C7 (as claimed): 10 probes of a fresh target, exactly 3 of them         *)
(* transport failures wherever they fall: no rule fires, no Insight.       *)
C7_NoInsightWherever ==
  (checkEvents["a"] = 10 /\ FailCount(HistoryOf("a")) = 3) =>
    /\ insightLog = <<>>
    /\ "a" \notin DOMAIN insightCache

(* C7 (amended): with exactly 3 failures among the 10 probes, the          *)
(* evaluation of the 10th probe does not fire the high-error-rate rule;    *)
(* no rule fires and no Insight is emitted during the 10 probes exactly    *)
(* when no prefix of them has more than 30% failures.                      *)
C7_TenthProbeQuiet ==
  (checkEvents["a"] = 10 /\ FailCount(HistoryOf("a")) = 3) =>
    /\ \A i \in 1..MaxInFlight :
         (Evaluated(i) /\ procs[i].sample[Len(procs[i].sample)].seq = 10)
           => 1 \notin procs[i].called
    /\ QuietPrefixes(HistoryOf("a")) <=> "a" \notin DOMAIN insightCache
    /\ QuietPrefixes(HistoryOf("a")) => insightLog = <<>>

C7_Witness ==
  /\ checkEvents["a"] = 10
  /\ {j \in 1..10 : ~HistoryOf("a")[j].success} = {4, 7, 10}
  /\ insightLog = <<>>
  /\ \E i \in 1..MaxInFlight :
       /\ procs[i].pc = "done"
       /\ procs[i].sample[10].seq = 10
       /\ ~procs[i].throttled

(* the 11th probe of C8: it failed, and exactly 3 of the first 10 did *)
EleventhOfThree(h) ==
  /\ Len(h) >= 11
  /\ ~h[11].success
  /\ Failures(h, 1, 10) = 3

(* C8 (as claimed): after 10 probes with exactly 3 failures, an 11th       *)
(* failing probe fires the rule and, the generation succeeding, exactly    *)
(* one Insight is emitted.                                                 *)
C8_EleventhAlwaysFires ==
  \A i \in 1..MaxInFlight :
    (/\ Evaluated(i)
     /\ procs[i].sample[Len(procs[i].sample)].seq = 11
     /\ EleventhOfThree(HistoryOf("a")))
      => /\ procs[i].called = {1}
         /\ "a" \in DOMAIN insightCache
         /\ (procs[i].pc = "done" /\ procs[i].reply = "json")
              => procs[i].emitted = {1}

(* C8 (amended): if moreover the cooldown is not active when the 11th      *)
(* probe is evaluated and the first probe was not one of the 3 failures,   *)
(* the rule fires, the cooldown timestamp is set to that instant and the   *)
(* pass emits exactly one Insight if the generated reply parses, none      *)
(* otherwise; a 12th failing probe evaluated less than 5 minutes later     *)
(* calls no generation and emits no Insight.                               *)
C8_EleventhFires ==
  [][\A i \in 1..MaxInFlight :
       LET u == procs[i].url
           h == HistoryOf(u)'
           cooling == u \in DOMAIN insightCache
                        /\ now - insightCache[u] < 300000
       IN /\ (/\ ProbeStep(i) /\ checkEvents'[u] = 11
              /\ EleventhOfThree(h) /\ h[1].success /\ ~cooling)
               => /\ procs'[i].pc = "gen"
                  /\ procs'[i].called = {1}
                  /\ insightCache'[u] = now
          /\ (/\ GenStep(i) /\ checkEvents[u] = 11 /\ ~procs[i].throttled
              /\ procs[i].sample[Len(procs[i].sample)].seq = 11
              /\ EleventhOfThree(h) /\ h[1].success)
               => /\ procs'[i].pc = "done"
                  /\ procs'[i].called = {1}
                  /\ IF procs'[i].reply \in {"json", "fenced"}
                     THEN /\ procs'[i].emitted = {1}
                          /\ Len(insightLog') = Len(insightLog) + 1
                          /\ insightLog'[Len(insightLog')].url = u
                     ELSE /\ procs'[i].emitted = {}
                          /\ insightLog' = insightLog
          /\ (/\ ProbeStep(i) /\ checkEvents'[u] = 12
              /\ EleventhOfThree(h) /\ h[1].success /\ ~h[12].success
              /\ cooling)
               => /\ procs'[i].pc = "done"
                  /\ procs'[i].called = {}
                  /\ insightLog' = insightLog
                  /\ insightCache' = insightCache]_vars

C8_Witness ==
  /\ checkEvents["a"] = 12
  /\ EleventhOfThree(HistoryOf("a"))
  /\ HistoryOf("a")[1].success
  /\ ~HistoryOf("a")[12].success
  /\ Len(insightLog) = 1
  /\ "a" \in DOMAIN insightCache
  /\ now - insightCache["a"] < 60000
  /\ \E i \in 1..MaxInFlight :
       /\ procs[i].pc = "done"
       /\ procs[i].sample[10].seq = 12
       /\ procs[i].throttled
       /\ procs[i].called = {}

(* C9: whenever the window, after the new sample is appended and the old  *)
(* ones pruned, holds fewer than 10 samples, analyze returns null.         *)
C9_WarmUp ==
  Len(metricsWindow) < 10 => lastSignal.type \in {"null", "none"}

C9_Witness ==
  /\ Len(metricsWindow) = 9
  /\ 10 * ErrorCount(metricsWindow) > 3 * 9
  /\ lastSignal.type = "null"
  /\ now = 61001

(* C10 (as claimed): after every call of analyze, whatever the order of    *)
(* the samples' timestamps, no sample of the window is older than 60 s.    *)
C10_FreshAnyOrder ==
  [][metricsWindow' # metricsWindow =>
       \A j \in 1..Len(metricsWindow') :
         metricsWindow'[j].timestamp >= now - 60000]_vars

InTimestampOrder(w) ==
  \A j \in 1..(Len(w) - 1) : w[j].timestamp <= w[j + 1].timestamp

(* C10 (amended): after every call of analyze that leaves the window in    *)
(* non-decreasing timestamp order (every sample was supplied with a        *)
(* timestamp not before that of the newest sample held, as addHttpLog      *)
(* does), every sample of the window lies in the trailing 60 seconds.      *)
C10_FreshInOrder ==
  [][(metricsWindow' # metricsWindow /\ InTimestampOrder(metricsWindow')) =>
       \A j \in 1..Len(metricsWindow') :
         /\ metricsWindow'[j].timestamp >= now - 60000
         /\ metricsWindow'[j].timestamp <= now]_vars

C10_Witness ==
  /\ now = 61001
  /\ Len(metricsWindow) >= 2
  /\ metricsWindow[1].timestamp = 60000
  /\ metricsWindow[Len(metricsWindow)].timestamp = 61001
  /\ InTimestampOrder(metricsWindow)

(* C11: once the window holds at least 10 samples, analyze returns         *)
(* HIGH_ERROR_RATE exactly when more than 3/10 of the window's samples     *)
(* have a status code of 500 or more; the signal carries that fraction,    *)
(* and it is returned even when the sample's latency is a spike.           *)
C11_ErrorRateSignal ==
  Len(metricsWindow) >= 10 =>
    LET e == Cardinality({j \in 1..Len(metricsWindow) :
                            metricsWindow[j].statusCode >= 500})
    IN /\ lastSignal.type = "HIGH_ERROR_RATE" <=> 10 * e > 3 * Len(metricsWindow)
       /\ lastSignal.type = "HIGH_ERROR_RATE" =>
            /\ lastSignal.num = e
            /\ lastSignal.den = Len(metricsWindow)

(* 4 of 11 samples are errors and the newest sample's latency of 100 is    *)
(* above mean + 3 * std of the eleven latencies                            *)
C11_Witness ==
  /\ Len(metricsWindow) = 11
  /\ lastSignal.type = "HIGH_ERROR_RATE"
  /\ lastSignal.num = 4
  /\ lastSignal.den = 11
  /\ metricsWindow[11].responseTime = 100
  /\ \A j \in 1..10 : metricsWindow[j].responseTime = 0

(* C12 (as claimed): once the window holds at least 10 samples of which at *)
(* most 3/10 are errors, analyze returns RESPONSE_TIME_SPIKE, carrying the *)
(* sample's latency and the mean, exactly when at least 10 samples of the  *)
(* window carry a latency, the sample carries one, and that latency is     *)
(* strictly greater than mean + 3 * population standard deviation of the   *)
(* window's latencies; otherwise it returns null.                          *)
C12_SpikeExactly ==
  LET w == metricsWindow
      n == Len(w)
      lat == SelectSeq([j \in 1..n |-> w[j].responseTime],
                       LAMBDA v : v # NoLatency)
      k == Len(lat)
      S == SeqSum(lat)
      Q == SeqSumSq(lat)
      x == w[n].responseTime
  IN (n >= 10 /\ 10 * ErrorCount(w) <= 3 * n) =>
       /\ lastSignal.type = "RESPONSE_TIME_SPIKE" <=>
            /\ k >= 10
            /\ x # NoLatency
            /\ k * x - S > 0
            /\ (k * x - S) * (k * x - S) > 9 * (k * Q - S * S)
       /\ lastSignal.type = "RESPONSE_TIME_SPIKE" =>
            /\ lastSignal.value = x
            /\ lastSignal.num = S
            /\ lastSignal.den = k
       /\ lastSignal.type # "RESPONSE_TIME_SPIKE" => lastSignal.type = "null"

(* C13: when the text-generation call is rejected or its reply is not      *)
(* JSON, generateInsight emits no insight and returns normally: the pass   *)
(* goes on to the next rule that holds for the sample (or ends), and       *)
(* histories, timers and the running flag are as they were, so later       *)
(* ticks of the target proceed.                                            *)
C13_EmissionNeverRaises ==
  [][\A i \in 1..MaxInFlight :
       (GenStep(i) /\ procs'[i].reply \in {"prose", "apiError"}) =>
         LET later == {k \in (procs[i].rule + 1)..3 :
                         RuleHolds(k, procs[i].sample)}
         IN /\ insightLog' = insightLog
            /\ procs'[i].emitted = procs[i].emitted
            /\ later = {} => procs'[i].pc = "done"
            /\ later # {} =>
                 /\ procs'[i].pc = "gen"
                 /\ procs'[i].rule \in later
                 /\ \A k \in later : procs'[i].rule <= k
            /\ endpointHistory' = endpointHistory
            /\ timers' = timers
            /\ isRunning' = isRunning]_vars

(* the emission for the error-rate rule failed and the slow-response rule  *)
(* of the same pass then emitted its insight                               *)
C13_Witness ==
  /\ \E i \in 1..MaxInFlight :
       /\ procs[i].pc = "done"
       /\ procs[i].called = {1, 2}
       /\ procs[i].emitted = {2}
  /\ Len(insightLog) = 1
  /\ insightLog[1].rule = 2

(* C14 (as claimed): when a step of a tick throws, the failure is caught   *)
(* in the callback and an "error" event for the tick's URL is delivered,   *)
(* the process goes on and the target's timer stays live, so that the      *)
(* next tick of the target executes.                                       *)
C14_TickFailureSurfaced ==
  [][\A i \in 1..MaxInFlight :
       (ProbeStep(i) /\ procs'[i].thrown) =>
         /\ errorEvents'[procs[i].url] = errorEvents[procs[i].url] + 1
         /\ alive'
         /\ timers'[procs[i].timer].live]_vars

(* C15: addEndpoint called while the agent is not running throws and       *)
(* changes nothing: no timer is created, and the registry, the histories,  *)
(* the cooldown markers and the running flag are as before.                *)
C15_AddWhileStopped ==
  [][(~isRunning /\ lastCall' # lastCall /\ lastCall'.op = "addEndpoint") =>
       /\ lastCall'.threw
       /\ timers' = timers
       /\ monitoringIntervals' = monitoringIntervals
       /\ endpointHistory' = endpointHistory
       /\ insightCache' = insightCache
       /\ isRunning' = isRunning]_vars

(* addEndpoint("a") has thrown after a stopMonitoring that followed a      *)
(* recorded probe of "a": the only timer is the cleared one of the start  *)
C15_Witness ==
  /\ lastCall = Called("addEndpoint", "a", TRUE)
  /\ ~isRunning
  /\ HistoryOf("a") # <<>>
  /\ monitoringIntervals = EmptyMap
  /\ Len(timers) = 1
  /\ ~timers[1].live

(* C16 (as claimed): a probe result that arrives when its target is no     *)
(* longer registered (removeEndpoint) or monitoring has been stopped       *)
(* (stopMonitoring) is discarded: no history changes, no check-completed   *)
(* event is emitted, no rule is evaluated and no cooldown marker is set.   *)
C16_LateResultDiscarded ==
  [][\A i \in 1..MaxInFlight :
       (/\ ProbeStep(i)
        /\ ~isRunning \/ procs[i].url \notin DOMAIN monitoringIntervals) =>
         /\ endpointHistory' = endpointHistory
         /\ checkEvents' = checkEvents
         /\ insightCache' = insightCache
         /\ procs'[i].called = {}]_vars

(* C17 (as claimed): once removeEndpoint(url) has returned, and until the  *)
(* url is added again, no tick starts a probe of that url: every probe     *)
(* that starts is for a url the registry holds.                            *)
C17_NoTickAfterRemove ==
  [][\A i \in 1..MaxInFlight :
       (procs[i].pc = "idle" /\ procs'[i].pc = "probe") =>
         procs'[i].url \in DOMAIN monitoringIntervals]_vars

(* C18 (as claimed): when removeEndpoint(url) or stopMonitoring() returns, *)
(* every url that is not registered any more has no history and no         *)
(* cooldown marker, and getEndpointStats reports none for it; and a url    *)
(* that is added when it was not registered starts with an empty history   *)
(* and no cooldown marker.                                                 *)
C18_StateDestroyed ==
  [][/\ (/\ lastCall' # lastCall
         /\ lastCall'.op \in {"removeEndpoint", "stopMonitoring"}) =>
           \A u \in Urls \ DOMAIN monitoringIntervals' :
             /\ u \notin DOMAIN endpointHistory' \/ endpointHistory'[u] = <<>>
             /\ u \notin DOMAIN insightCache'
             /\ EndpointStats(u)' = NullStats
     /\ \A u \in DOMAIN monitoringIntervals' \ DOMAIN monitoringIntervals :
           /\ u \notin DOMAIN endpointHistory' \/ endpointHistory'[u] = <<>>
           /\ u \notin DOMAIN insightCache']_vars

(* C19: checkEndpoint returns one result and does not throw.  When fetch   *)
(* rejects, the result has status 0, success false and an error text.      *)
(* When fetch resolves, the result has the response's status, no error     *)
(* text, and success exactly for a status from 200 to 299 (response.ok):   *)
(* a 500 gives success false with status 500.  The responseTime is the     *)
(* elapsed time in both cases.                                             *)
C19_CheckEndpointTotal ==
  lastCall.op = "checkEndpoint" =>
    LET resp == lastCall.arg.resp
        result == lastCall.value
    IN /\ ~lastCall.threw
       /\ result.url = lastCall.url
       /\ result.responseTime = lastCall.arg.elapsed
       /\ ~resp.completed =>
            (result.status = 0 /\ ~result.success /\ result.error)
       /\ resp.completed =>
            /\ result.status = resp.status
            /\ ~result.error
            /\ result.success <=> (resp.status >= 200 /\ resp.status <= 299)

C19_Witness ==
  /\ lastCall.op = "checkEndpoint"
  /\ lastCall.arg.resp = [completed |-> TRUE, status |-> 500]
  /\ lastCall.value.status = 500
  /\ ~lastCall.value.success
  /\ ~lastCall.value.error

(* the step is a call of getEndpointStats or getStatus *)
ReadStep ==
  lastCall' # lastCall /\ lastCall'.op \in {"getEndpointStats", "getStatus"}

(* the results of h from the oldest to the newest: seq increases *)
OldestFirst(h) == \A j \in 1..(Len(h) - 1) : h[j].seq < h[j + 1].seq

(* C20: a read changes nothing (histories, cooldown markers, registry,     *)
(* timers, flag); it returns the stored results oldest first, for          *)
(* getEndpointStats the last ten of the url's history; and the same read   *)
(* made again at once returns the same value.                              *)
C20_ReadsIdempotent ==
  [][ReadStep =>
       /\ UNCHANGED <<endpointHistory, insightCache, monitoringIntervals,
                      timers, isRunning, procs, insightLog, checkEvents>>
       /\ \A u \in Urls :
            (lastCall'.op = "getEndpointStats" /\ lastCall'.url = u) =>
              LET h == IF u \in DOMAIN endpointHistory
                       THEN endpointHistory[u] ELSE <<>>
                  recent == lastCall'.value.recentChecks
              IN /\ lastCall'.value.found <=> h # <<>>
                 /\ Len(recent) = IF Len(h) < 10 THEN Len(h) ELSE 10
                 /\ \A j \in 1..Len(recent) :
                      recent[j] = h[Len(h) - Len(recent) + j]
                 /\ OldestFirst(recent)
                 /\ EndpointStats(u)' = lastCall'.value
       /\ lastCall'.op = "getStatus" =>
            /\ lastCall'.value.endpointHistory = endpointHistory
            /\ \A u \in DOMAIN endpointHistory :
                 OldestFirst(lastCall'.value.endpointHistory[u])
            /\ AgentStatus' = lastCall'.value]_vars

(* getEndpointStats("a") after eleven probes: the ten newest results,      *)
(* the second to the eleventh, with the cooldown marker of "a" in place    *)
C20_Witness ==
  /\ lastCall.op = "getEndpointStats"
  /\ lastCall.url = "a"
  /\ lastCall.value.totalChecks = 11
  /\ Len(lastCall.value.recentChecks) = 10
  /\ lastCall.value.recentChecks[1].seq = 2
  /\ lastCall.value.recentChecks[10].seq = 11
  /\ Len(HistoryOf("a")) = 11
  /\ MapHas(insightCache, "a")

(* C21: when a probe returns while the cooldown of its target is active    *)
(* (a marker less than 5 minutes old), the pass ends at once: no rule is   *)
(* acted on, no text generation is started, no insight is emitted and no   *)
(* cooldown marker changes, whatever the sample holds.                     *)
C21_ThrottledPassInert ==
  [][\A i \in 1..MaxInFlight :
       (/\ ProbeStep(i)
        /\ procs[i].url \in DOMAIN insightCache
        /\ now - insightCache[procs[i].url] < 300000) =>
         /\ procs'[i].pc = "done"
         /\ procs'[i].called = {}
         /\ insightCache' = insightCache
         /\ insightLog' = insightLog
         /\ \A j \in 1..MaxInFlight :
              procs'[j].pc = "gen" => procs[j].pc = "gen"]_vars

(* a pass one millisecond before the end of the cooldown, over a sample    *)
(* for which a rule holds: suppressed, the marker still that of instant 0  *)
C21_Witness ==
  /\ now = 299999
  /\ MapHas(insightCache, "a")
  /\ insightCache["a"] = 0
  /\ \E i \in 1..MaxInFlight :
       /\ procs[i].pc = "done"
       /\ procs[i].throttled
       /\ procs[i].called = {}
       /\ Len(procs[i].sample) >= 2
       /\ SomeRuleHoldsFor(procs[i].sample)

(* the rules that hold for the sample s, by number: 1 error rate,          *)
(* 2 latency, 3 status instability                                         *)
HoldingRules(s) ==
  {k \in 1..3 :
     \/ k = 1 /\ 10 * FailCount(s) > 3 * Len(s)
     \/ k = 2 /\ SumResponseTime(s) > 5000 * Len(s)
     \/ k = 3 /\ Cardinality(StatusSet(s)) > 3}

TickStep(i) == procs[i].pc = "idle" /\ procs'[i].pc = "probe"

(* C23: a tick that starts while the agent runs starts one probe and       *)
(* nothing else.  The return of the probe starts no other probe (no        *)
(* retry, also after a failure), appends that one result to the history    *)
(* of the tick's target, counts one check-completed event for it, and      *)
(* runs the evaluation on a sample whose last entry is that result.        *)
C23_OneProbePerTick ==
  [][\A i \in 1..MaxInFlight :
       LET u == procs[i].url
           h == IF u \in DOMAIN endpointHistory THEN endpointHistory[u]
                ELSE <<>>
       IN /\ TickStep(i) =>
               /\ isRunning
               /\ \A j \in 1..MaxInFlight : j # i => procs'[j] = procs[j]
               /\ endpointHistory' = endpointHistory
               /\ checkEvents' = checkEvents
          /\ ProbeStep(i) =>
               /\ \A j \in 1..MaxInFlight : j # i => procs'[j] = procs[j]
               /\ endpointHistory'[u] = Append(h, endpointHistory'[u][Len(h) + 1])
               /\ endpointHistory'[u][Len(h) + 1].url = u
               /\ \A v \in DOMAIN endpointHistory \ {u} :
                    endpointHistory'[v] = endpointHistory[v]
               /\ checkEvents' = [checkEvents EXCEPT ![u] = @ + 1]
               /\ procs'[i].pc \in {"gen", "done"}
               /\ procs'[i].sample # <<>>
               /\ procs'[i].sample[Len(procs'[i].sample)]
                    = endpointHistory'[u][Len(h) + 1]]_vars

(* the second probe of "a" has failed like the first: two results, two     *)
(* events, no probe under way, the pass done on a sample ending with the   *)
(* second result                                                           *)
C23_Witness ==
  /\ Len(HistoryOf("a")) = 2
  /\ ~HistoryOf("a")[1].success
  /\ ~HistoryOf("a")[2].success
  /\ checkEvents["a"] = 2
  /\ \A i \in 1..MaxInFlight : procs[i].pc # "probe"
  /\ \E i \in 1..MaxInFlight :
       /\ procs[i].pc = "done"
       /\ procs[i].url = "a"
       /\ Len(procs[i].sample) = 2
       /\ procs[i].sample[2].seq = 2

(* C24: the evaluation that follows a probe runs on the last min(10, n)    *)
(* records of the history of n >= 1 records the probe left, whatever n     *)
(* is; when the first record of a target is a failure, the sample is that  *)
(* one record and the high-error-rate rule fires on it.                    *)
C24_SampleIsLastTen ==
  [][\A i \in 1..MaxInFlight :
       ProbeStep(i) =>
         LET h == endpointHistory'[procs[i].url]
             n == Len(h)
             m == IF n < 10 THEN n ELSE 10
             smp == procs'[i].sample
         IN /\ n >= 1
            /\ Len(smp) = m
            /\ \A j \in 1..m : smp[j] = h[n - m + j]
            /\ (n = 1 /\ ~h[1].success) =>
                 /\ ~procs'[i].throttled
                 /\ procs'[i].rule = 1
                 /\ procs'[i].pc = "gen"]_vars

(* the first probe of the target failed: the pass holds a sample of one    *)
(* failure and has called the generation for the high-error-rate rule      *)
C24_Witness ==
  \E i \in 1..MaxInFlight :
    /\ procs[i].pc = "gen"
    /\ procs[i].url = "a"
    /\ Len(HistoryOf("a")) = 1
    /\ Len(procs[i].sample) = 1
    /\ FailCount(procs[i].sample) = 1
    /\ procs[i].called = {1}

(* the step is one call of addHttpLog *)
LogStep == storage'.currentLogId # storage.currentLogId

(* C25: a call of addHttpLog stores the log under an id no stored log has, *)
(* hands exactly one sample (the status and the time of that log) to the   *)
(* detector, broadcasts one AI_ALERT if the detector returned a signal and *)
(* none otherwise, and delivers the log to the onNewLog subscriber, when   *)
(* one is set, in both cases; nothing else stores a log, feeds the         *)
(* detector, broadcasts or delivers.                                       *)
C25_EveryLogAnalyzedOnce ==
  [][LET id == storage.currentLogId
         n == Len(metricsWindow')
         alert == lastSignal' \notin {NullSignal, NoCall}
     IN /\ LogStep =>
             /\ id \notin DOMAIN storage.httpLogs
             /\ DOMAIN storage'.httpLogs = DOMAIN storage.httpLogs \cup {id}
             /\ \A k \in DOMAIN storage.httpLogs :
                  storage'.httpLogs[k] = storage.httpLogs[k]
             /\ storage'.httpLogs[id].id = id
             /\ n >= 1
             /\ n <= Len(metricsWindow) + 1
             /\ metricsWindow'[n].statusCode = storage'.httpLogs[id].statusCode
             /\ metricsWindow'[n].timestamp = storage'.httpLogs[id].timestamp
             /\ \A j \in 1..(n - 1) :
                  metricsWindow'[j] = metricsWindow[Len(metricsWindow) + 1 - n + j]
             /\ Len(storage'.broadcasts)
                  = Len(storage.broadcasts) + (IF alert THEN 1 ELSE 0)
             /\ alert =>
                  storage'.broadcasts[Len(storage'.broadcasts)].event = "AI_ALERT"
             /\ Len(storage'.updates)
                  = Len(storage.updates) + (IF storage.onNewLog THEN 1 ELSE 0)
             /\ storage.onNewLog =>
                  storage'.updates[Len(storage'.updates)] = storage'.httpLogs[id]
        /\ ~LogStep =>
             /\ storage'.httpLogs = storage.httpLogs
             /\ metricsWindow' = metricsWindow
             /\ storage'.broadcasts = storage.broadcasts
             /\ storage'.updates = storage.updates]_vars

(* eleven logs were added with the subscriber set from the start; the last *)
(* raised an alert and was delivered as well, the ten before raised none   *)
C25_Witness ==
  /\ storage.currentLogId = 12
  /\ Len(storage.updates) = 11
  /\ Len(storage.broadcasts) = 1
  /\ lastSignal.type = "HIGH_ERROR_RATE"
  /\ storage.updates[11].id = 11

(* the cooldown timestamp of u in milliseconds, -1 when u has none *)
MarkerOf(u) == IF MapHas(insightCache, u) THEN insightCache[u] ELSE -1

(* C26: whatever the interleaving of the ticks of two targets, a step      *)
(* that changes the history or the cooldown timestamp of a target is the   *)
(* return of a probe or of a text generation of a tick of that same        *)
(* target, and it is the only callback that moves; and whether a pass is   *)
(* throttled depends on the timestamp of its own target alone.             *)
C26_TargetsIsolated ==
  [][/\ \A v \in Urls :
          (HistoryOf(v)' # HistoryOf(v) \/ MarkerOf(v)' # MarkerOf(v)) =>
            \E i \in 1..MaxInFlight :
              /\ procs[i].url = v
              /\ ProbeStep(i) \/ GenStep(i)
              /\ \A j \in 1..MaxInFlight : j # i => procs'[j] = procs[j]
     /\ \A i \in 1..MaxInFlight :
          ProbeStep(i) =>
            (procs'[i].throttled <=>
               /\ MarkerOf(procs[i].url) >= 0
               /\ now - MarkerOf(procs[i].url) < COOLDOWN_MS)]_vars

(* an insight for "a" was emitted and started the cooldown of "a"; with    *)
(* that cooldown still active, an insight for "b" was emitted at the same  *)
(* instant                                                                 *)
C26_Witness ==
  /\ Len(insightLog) = 2
  /\ insightLog[1].url = "a"
  /\ insightLog[2].url = "b"
  /\ insightLog[1].timestamp = insightLog[2].timestamp
  /\ MarkerOf("a") = insightLog[1].timestamp
  /\ now - MarkerOf("a") < COOLDOWN_MS
  /\ Len(HistoryOf("a")) = 1

(* the step is a return of getStatus *)
StatusStep == lastCall'.op = "getStatus" /\ lastCall' # lastCall

(* the step is a run of the restart route *)
RestartStep == lastCall'.op = "restart" /\ timers' # timers

(* C27: from the return of stopMonitoring until the next start, getStatus  *)
(* reports isRunning = false and no monitored endpoint, and no timer,      *)
(* registered or not, starts a probe; only a start ends that period; and   *)
(* after stopMonitoring followed by startMonitoring(endpoints) the agent   *)
(* runs and the registry's keys are exactly the urls of the endpoints,     *)
(* each with a live timer of that url.                                     *)
C27_StoppedUntilRestart ==
  [][/\ (lastCall'.op = "stopMonitoring" /\ lastCall' # lastCall)
          => ~isRunning'
     /\ (~isRunning /\ StatusStep) =>
          /\ lastCall'.value.isRunning = FALSE
          /\ lastCall'.value.endpointsMonitored = 0
          /\ lastCall'.value.endpoints = {}
     /\ ~isRunning => \A i \in 1..MaxInFlight : ~TickStep(i)
     /\ (~isRunning /\ isRunning') => RestartStep
     /\ RestartStep =>
          LET given == lastCall'.arg.endpoints
          IN /\ isRunning'
             /\ DOMAIN monitoringIntervals'
                  = {given[k] : k \in 1..Len(given)}
             /\ \A u \in DOMAIN monitoringIntervals' :
                  /\ timers'[monitoringIntervals'[u]].live
                  /\ timers'[monitoringIntervals'[u]].url = u]_vars

(* the agent was stopped while a timer of "a" that the registry had lost   *)
(* was live; a probe of "a" had been recorded before; getStatus has now    *)
(* reported the stopped agent with no endpoint                             *)
C27_Witness ==
  /\ ~isRunning
  /\ lastCall.op = "getStatus"
  /\ lastCall.value.endpointsMonitored = 0
  /\ \E t \in 1..Len(timers) : timers[t].live /\ timers[t].url = "a"
  /\ Len(HistoryOf("a")) = 1
  /\ \A i \in 1..MaxInFlight : procs[i].pc = "idle"

(* the handles of the timers that have not been cleared *)
LiveTimers == {t \in 1..Len(timers) : timers[t].live}

(* C28 (as claimed): after any sequence of startMonitoring, addEndpoint,   *)
(* removeEndpoint and stopMonitoring calls, every live timer is the one    *)
(* the registry records for its url, so no url has two live timers and     *)
(* the number of registered endpoints that getStatus reports is the        *)
(* number of live timers.                                                  *)
C28_TimerRegistry ==
  /\ \A t \in LiveTimers :
       /\ MapHas(monitoringIntervals, timers[t].url)
       /\ monitoringIntervals[timers[t].url] = t
  /\ \A t1 \in LiveTimers : \A t2 \in LiveTimers :
       timers[t1].url = timers[t2].url => t1 = t2
  /\ Cardinality(DOMAIN monitoringIntervals) = Cardinality(LiveTimers)

FailedReplies == {"prose", "apiError"}

(* C29: when a rule fires, the cooldown timestamp of the target is set to  *)
(* the current time in the step that calls the text generation, before     *)
(* any insight of that rule exists; when the call is rejected or its reply *)
(* does not parse, no insight is emitted and the timestamp stays; and a    *)
(* pass that starts less than 5 minutes after the timestamp calls no       *)
(* generation.                                                             *)
C29_CooldownNotRolledBack ==
  [][\A i \in 1..MaxInFlight :
       LET u == procs[i].url
       IN /\ (ProbeStep(i) /\ procs'[i].pc = "gen") =>
               /\ MapHas(insightCache', u)
               /\ insightCache'[u] = now
               /\ insightLog' = insightLog
          /\ (GenStep(i) /\ procs'[i].reply \in FailedReplies) =>
               /\ insightLog' = insightLog
               /\ procs'[i].emitted = procs[i].emitted
               /\ MapHas(insightCache', u)
               /\ insightCache'[u] >= insightCache[u]
          /\ (/\ ProbeStep(i)
              /\ MapHas(insightCache, u)
              /\ now - insightCache[u] < COOLDOWN_MS) =>
               /\ procs'[i].pc = "done"
               /\ procs'[i].called = {}
               /\ insightCache' = insightCache]_vars

(* the first probe failed and fired the error-rate rule, the generation    *)
(* was rejected, and the second failed probe, in the same 5 minutes, was   *)
(* throttled: two records, a cooldown timestamp, no insight                *)
C29_Witness ==
  /\ Len(HistoryOf("a")) = 2
  /\ FailCount(HistoryOf("a")) = 2
  /\ insightLog = <<>>
  /\ MapHas(insightCache, "a")
  /\ now - insightCache["a"] < COOLDOWN_MS
  /\ \E i \in 1..MaxInFlight :
       /\ procs[i].pc = "done"
       /\ procs[i].throttled
       /\ procs[i].called = {}

(* the cooldown of "a" has run out, and a probe of "a" is under way or can *)
(* still be started                                                        *)
ExpiredAndProbing ==
  /\ isRunning
  /\ MapHas(insightCache, "a")
  /\ now - insightCache["a"] >= COOLDOWN_MS
  /\ Probing # {} \/ LastSeq("a") < LiveMaxChecks

(* C30: with a target that fails on every probe, a running agent whose     *)
(* timer keeps firing and a text generation that always answers with       *)
(* JSON, an insight for the target is eventually emitted, and whenever     *)
(* its cooldown has run out and the timer fires again, one more insight    *)
(* is eventually emitted.                                                  *)
C30_AlertsRecur ==
  /\ <>(Len(insightLog) >= 1)
  /\ \A n \in 0..(2 * LiveMaxChecks - 1) :
       (ExpiredAndProbing /\ Len(insightLog) = n) ~> (Len(insightLog) > n)

(* three insights for "a", each a full cooldown after the one before *)
C30_Witness ==
  /\ Len(insightLog) = 3
  /\ \A j \in 1..3 : insightLog[j].url = "a" /\ insightLog[j].rule = 1
  /\ insightLog[2].timestamp - insightLog[1].timestamp >= COOLDOWN_MS
  /\ insightLog[3].timestamp - insightLog[2].timestamp >= COOLDOWN_MS
  /\ Len(HistoryOf("a")) = 3

(* C31: every sample that addHttpLog hands to the detector has latency 0,  *)
(* the detector never returns RESPONSE_TIME_SPIKE for such a sample, and   *)
(* every AI_ALERT that storage broadcasts is a HIGH_ERROR_RATE signal.     *)
C31_StorageAlertsAreErrorRate ==
  /\ \A j \in 1..Len(metricsWindow) : metricsWindow[j].responseTime = 0
  /\ lastSignal.type # "RESPONSE_TIME_SPIKE"
  /\ \A j \in 1..Len(storage.broadcasts) :
       /\ storage.broadcasts[j].event = "AI_ALERT"
       /\ storage.broadcasts[j].type = "HIGH_ERROR_RATE"

(* eleven logs in one minute, two alerts broadcast: the detector is past   *)
(* its warm-up with eleven latencies of 0 in the window                    *)
C31_Witness ==
  /\ Len(metricsWindow) = 11
  /\ Len(ResponseTimes(metricsWindow)) = 11
  /\ Len(storage.broadcasts) = 2
  /\ storage.broadcasts[1].type = "HIGH_ERROR_RATE"
  /\ lastSignal.type = "HIGH_ERROR_RATE"

(* the number of samples of the window that carry a latency *)
LatencyBearing ==
  Cardinality({j \in 1..Len(metricsWindow) :
                 metricsWindow[j].responseTime # NoLatency})

(* C32 (as claimed): analyze returns RESPONSE_TIME_SPIKE only when the     *)
(* window holds at least 11 samples that carry a latency; with exactly 10  *)
(* it never does, whatever the latencies.                                  *)
C32_NoSpikeAtTen ==
  lastSignal.type = "RESPONSE_TIME_SPIKE" => LatencyBearing >= 11

(* the step is the close event of a socket of the hook *)
CloseStep ==
  \E s \in 1..Len(client.sockets) :
    client.sockets[s] # "closed" /\ client'.sockets[s] = "closed"

PendingTimeouts(c) ==
  {h \in 1..Len(c.timeouts) : c.timeouts[h].state = "pending"}

(* every close of a socket of the mounted hook schedules one reconnect,   *)
(* due 5 seconds later                                                    *)
ClosesScheduleOneReconnect ==
  (client.mounted = "yes" /\ CloseStep) =>
    /\ Len(client'.timeouts) = Len(client.timeouts) + 1
    /\ client'.timeouts[Len(client'.timeouts)]
         = [due |-> now + RECONNECT_MS, state |-> "pending"]
    /\ \A h \in 1..Len(client.timeouts) :
         client'.timeouts[h] = client.timeouts[h]

(* C33 (as claimed): while the hook is mounted every close of the socket   *)
(* schedules exactly one reconnect attempt 5 seconds later; once the       *)
(* cleanup has run, no reconnect timer is pending and no WebSocket is      *)
(* created any more.                                                       *)
C33_NoReconnectAfterUnmount ==
  [][/\ ClosesScheduleOneReconnect
     /\ client'.mounted = "done" =>
          /\ PendingTimeouts(client') = {}
          /\ client.mounted = "done" =>
               Len(client'.sockets) = Len(client.sockets)]_vars

(* the step is the handling of an "update" message *)
UpdateStep ==
  client'.received = client.received + 1 /\ client'.lastType = "update"

(* C34 (as claimed): after any sequence of received messages the hook's    *)
(* log list holds at most 100 entries; an "update" message puts its log    *)
(* at the head, keeps the others in their order behind it, and what falls  *)
(* off beyond 100 entries are the oldest logs.                             *)
C34_ClientLogsCapped ==
  [][/\ Len(client'.logs) <= CLIENT_LOG_CAP
     /\ UpdateStep =>
          LET old == client.logs
              new == client'.logs
          IN /\ Len(new) = (IF Len(old) < CLIENT_LOG_CAP THEN Len(old) + 1
                            ELSE CLIENT_LOG_CAP)
             /\ \A j \in 2..Len(new) : new[j] = old[j - 1]
             /\ new[1] \notin {old[j] : j \in 1..Len(old)}
             /\ \A j \in Len(new)..Len(old) : \A k \in 1..Len(new) :
                  old[j].id < new[k].id]_vars

====
